---------------------------- MODULE Spec2Model ----------------------------
(***************************************************************************)
(* A model of rclone_manager.core.rclone.RcloneRunner: the table of        *)
(* running processes (_running_processes), the worker threads started by   *)
(* mount() and transfer(), the child processes they spawn, the calls that  *)
(* terminate a process (cancel_transfer, unmount) and the bounded          *)
(* invocations (_run_command and its callers).                             *)
(*                                                                         *)
(* Threads are interleaved at the granularity of the accesses to the       *)
(* shared dictionary: the dictionary is not guarded by any lock in the     *)
(* source, so a membership test and the indexing or deletion that follows  *)
(* it are separate steps.                                                  *)
(***************************************************************************)
EXTENDS Integers, Sequences, FiniteSets, TLC

(***************************************************************************)
(* Bounds of the model.                                                    *)
(***************************************************************************)
\* seconds the wall clock can advance (datetime.now() at one-second resolution)
MaxClock == 1
\* calls of mount(), transfer() and run_ncdu() in one behaviour
MaxLaunches == 2
\* lines a child process writes to its output pipe
MaxLines == 2
\* calls of cancel_transfer() and unmount() in one behaviour
MaxCalls == 1

(***************************************************************************)
(* Values.                                                                 *)
(***************************************************************************)
\* the executable path: empty (not configured) or set
Paths == {"", "rclone"}

\* exit status of a process that received SIGTERM (Popen.returncode = -15)
SIGTERM_CODE == -15

\* exit statuses of a process that exits on its own
ExitCodes == {0, 1}

\* f"{kind}_{datetime.now().strftime('%Y%m%d%H%M%S')}": the kind tag and the
\* clock reading truncated to the second
process_id_of(kind, now) == <<kind, now>>

\* process_id=None, the default of unmount()
NoneId == <<"None", 0>>

\* an identifier no launch of the model returns
UnknownId == <<"transfer", -1>>

VARIABLES
    rclone_path,         \* RcloneRunner.rclone_path
    _running_processes,  \* RcloneRunner._running_processes: process_id -> Popen handle
    clock,               \* the wall clock, in seconds
    procs,               \* the child processes spawned so far (a handle is an index)
    launches,            \* the calls of mount/transfer/run_ncdu and their worker threads
    call,                \* the current (or last) call of cancel_transfer/unmount
    cmd,                 \* the last bounded invocation and its result
    argv,                \* the last command line built by mount(), transfer() or check_files()
    tab,                 \* TransferTab: the progress window and its widgets
    after_queue,         \* the functions scheduled with root.after(0, ...), oldest first
    received,            \* the calls made to the sink process_output, oldest first
    config_file,         \* the configuration file of ConfigManager, as it is on disk
    app                  \* RcloneManagerApp: its configuration, its path and the runners of its tabs

vars == <<rclone_path, _running_processes, clock, procs, launches, call, cmd, argv, tab, after_queue, received, config_file, app>>

(***************************************************************************)
(* The dictionary _running_processes, as a function on its keys.           *)
(***************************************************************************)
\* d[k] = v
dict_set(d, k, v) == [x \in DOMAIN d \cup {k} |-> IF x = k THEN v ELSE d[x]]

\* del d[k], for k in d
dict_del(d, k) == [x \in DOMAIN d \ {k} |-> d[x]]

\* the empty dictionary of __init__
EmptyDict == [x \in {} |-> 0]

(***************************************************************************)
(* Child processes. A handle is the index of the process in procs.         *)
(* stdout is the pipe between the child and the worker that reads it: the  *)
(* child appends lines, readline() takes the first. A line is modelled by  *)
(* its sequence number in the child's output.                              *)
(***************************************************************************)
\* subprocess.Popen(cmd, ...) accepted by the operating system
Popen(piped) ==
    [alive |-> TRUE, signalled |-> FALSE, exitcode |-> 0,
     piped |-> piped, stdout |-> <<>>, written |-> 0]

\* process.terminate(): SIGTERM to a live child, nothing for one that has exited
\* (Popen.send_signal polls first and ignores a process that is gone, so the
\* call itself does not raise)
terminate(ps, p) ==
    IF ps[p].alive THEN [ps EXCEPT ![p].signalled = TRUE] ELSE ps

\* readline() returns '' : the child has exited and the pipe is drained
AtEOF(p) == ~procs[p].alive /\ procs[p].stdout = <<>>

\* the child writes its next line to the pipe
ChildWrite(p) ==
    /\ procs[p].alive
    /\ procs[p].piped
    /\ procs[p].written < MaxLines
    /\ procs' = [procs EXCEPT ![p].written = @ + 1,
                              ![p].stdout = Append(@, procs[p].written + 1)]
    /\ UNCHANGED <<rclone_path, _running_processes, clock, launches, call, cmd, argv, tab, after_queue, received,
                   config_file, app>>

\* the child exits: by the signal if one was sent, else on its own. The exit
\* status is kept for the processes whose worker reads it (returncode, line
\* 557): those started with a pipe.
ChildExit(p) ==
    /\ procs[p].alive
    /\ \E code \in ExitCodes :
          procs' = [procs EXCEPT ![p].alive = FALSE,
                                 ![p].exitcode = IF ~procs[p].piped THEN 0
                                                 ELSE IF procs[p].signalled
                                                 THEN SIGTERM_CODE ELSE code]
    /\ UNCHANGED <<rclone_path, _running_processes, clock, launches, call, cmd, argv, tab, after_queue, received,
                   config_file, app>>

(***************************************************************************)
(* Launches: mount(), transfer(), run_ncdu().                              *)
(* A launch record holds the caller's side (the identifier it generated,   *)
(* what it returned) and, for mount and transfer, the worker thread the    *)
(* call started: its position pc, its local variable process, the          *)
(* exception it is handling and the calls it has made to the sink.         *)
(***************************************************************************)
\* the methods transfer() accepts, and one it rejects
TransferMethods == {"copy", "move", "sync"}
Methods == TransferMethods \cup {"link"}

Launch(op, id, callback, caller, wake, pc) ==
    [op |-> op, process_id |-> id, callback |-> callback,
     caller |-> caller, wake |-> wake,
     pc |-> pc, process |-> 0, exc |-> "none", delivered |-> <<>>]

\* the launches whose call has returned a result carrying a process_id
Returned == {i \in DOMAIN launches : launches[i].caller = "returned"}

\* mount(): generate the identifier, start the worker, then time.sleep(1)
mount ==
    /\ Len(launches) < MaxLaunches
    /\ launches' = Append(launches,
          Launch("mount", process_id_of("mount", clock), FALSE,
                 "sleeping", clock + 1, "start"))
    /\ UNCHANGED <<rclone_path, _running_processes, clock, procs, call, cmd, argv, tab, after_queue, received,
                   config_file, app>>

\* mount(): the sleep is over, return {'process_id', 'command', 'status': "iniciado"}
mount_return(i) ==
    /\ launches[i].op = "mount"
    /\ launches[i].caller = "sleeping"
    /\ clock >= launches[i].wake
    /\ launches' = [launches EXCEPT ![i].caller = "returned", ![i].wake = 0]
    /\ UNCHANGED <<rclone_path, _running_processes, clock, procs, call, cmd, argv, tab, after_queue, received,
                   config_file, app>>

\* transfer(): reject an unknown method; else generate the identifier, start
\* the worker and return {'process_id', 'command', 'status': "iniciado"} at once
transfer(method, callback) ==
    /\ Len(launches) < MaxLaunches
    /\ IF method \notin TransferMethods
       THEN UNCHANGED launches
       ELSE launches' = Append(launches,
               Launch("transfer", process_id_of("transfer", clock), callback,
                      "returned", 0, "start"))
    /\ UNCHANGED <<rclone_path, _running_processes, clock, procs, call, cmd, argv, tab, after_queue, received,
                   config_file, app>>

\* run_ncdu(): spawn in the calling thread and register; no thread waits for
\* the process. A refused spawn (an empty path is one) returns an error result.
run_ncdu ==
    /\ Len(launches) < MaxLaunches
    /\ \E accepted \in BOOLEAN :
         LET id == process_id_of("ncdu", clock)
             p  == Len(procs) + 1 IN
         IF accepted /\ rclone_path # ""
         THEN /\ procs' = Append(procs, Popen(FALSE))
              /\ _running_processes' = dict_set(_running_processes, id, p)
              /\ launches' = Append(launches,
                    [Launch("ncdu", id, FALSE, "returned", 0, "none")
                        EXCEPT !.process = p])
         ELSE /\ launches' = Append(launches,
                    Launch("ncdu", id, FALSE, "failed", 0, "none"))
              /\ UNCHANGED <<procs, _running_processes>>
    /\ UNCHANGED <<rclone_path, clock, call, cmd, argv, tab, after_queue, received, config_file,
                   app>>

\* the wall clock reaches the next second
Tick ==
    /\ clock < MaxClock
    /\ clock' = clock + 1
    /\ UNCHANGED <<rclone_path, _running_processes, procs, launches, call, cmd, argv, tab, after_queue, received,
                   config_file, app>>

\* set_rclone_path(path)
set_rclone_path(path) ==
    /\ path # rclone_path
    /\ rclone_path' = path
    /\ UNCHANGED <<_running_processes, clock, procs, launches, call, cmd, argv, tab, after_queue, received,
                   config_file, app>>

(***************************************************************************)
(* The worker of transfer(): _run_process_with_output(args, process_id,    *)
(* callback). A position is named after the source line it is about to     *)
(* execute. The sink (callback) is the caller's function: a call of it     *)
(* returns or raises.                                                      *)
(***************************************************************************)
\* the terminal markers f"__RETURN_CODE:{returncode}__" and f"__ERROR:{e}__", and a line
ReturnCodeMarker(code) == <<"__RETURN_CODE", code>>
ErrorMarker(e) == <<"__ERROR", e>>
OutputLine(n) == <<"line", n>>

IsMarker(item) == item[1] \in {"__RETURN_CODE", "__ERROR"}

\* "if callback: callback(item)": the calls made to the sink so far
callback_call(l, item) ==
    IF l.callback THEN Append(l.delivered, item) ELSE l.delivered

\* whether a call of the sink may raise: only when there is a sink
SinkOutcomes(l) == IF l.callback THEN {"returns", "raises"} ELSE {"returns"}

\* lines 530-545: return when no path is set; else spawn and register
run_process_with_output_start(i) ==
    /\ launches[i].op = "transfer"
    /\ launches[i].pc = "start"
    /\ \E accepted \in BOOLEAN :
         IF rclone_path = ""
         THEN /\ launches' = [launches EXCEPT ![i].pc = "done"]
              /\ UNCHANGED <<procs, _running_processes>>
         ELSE IF accepted
         THEN /\ procs' = Append(procs, Popen(TRUE))
              /\ _running_processes' =
                    dict_set(_running_processes, launches[i].process_id, Len(procs) + 1)
              /\ launches' = [launches EXCEPT ![i].pc = "L548",
                                              ![i].process = Len(procs) + 1]
         ELSE /\ launches' = [launches EXCEPT ![i].pc = "L565", ![i].exc = "OSError"]
              /\ UNCHANGED <<procs, _running_processes>>
    /\ UNCHANGED <<rclone_path, clock, call, cmd, argv, tab, after_queue, received, config_file,
                   app>>

\* lines 548-550: read the next line and hand it to the sink
run_process_with_output_line(i) ==
    /\ launches[i].op = "transfer"
    /\ launches[i].pc = "L548"
    /\ procs[launches[i].process].stdout # <<>>
    /\ LET p == launches[i].process
           line == Head(procs[p].stdout) IN
       /\ procs' = [procs EXCEPT ![p].stdout = Tail(@)]
       /\ \E outcome \in SinkOutcomes(launches[i]) :
            launches' = [launches EXCEPT
                ![i].delivered = callback_call(launches[i], OutputLine(line)),
                ![i].pc = IF outcome = "raises" THEN "L565" ELSE "L548",
                ![i].exc = IF outcome = "raises" THEN "callback" ELSE @]
    /\ UNCHANGED <<rclone_path, _running_processes, clock, call, cmd, argv, tab, after_queue, received,
                   config_file, app>>

\* lines 548-557: end of the output, wait(), then the return code to the sink
run_process_with_output_wait(i) ==
    /\ launches[i].op = "transfer"
    /\ launches[i].pc = "L548"
    /\ AtEOF(launches[i].process)
    /\ \E outcome \in SinkOutcomes(launches[i]) :
         launches' = [launches EXCEPT
             ![i].delivered = callback_call(launches[i],
                                 ReturnCodeMarker(procs[launches[i].process].exitcode)),
             ![i].pc = IF outcome = "raises" THEN "L565" ELSE "L560",
             ![i].exc = IF outcome = "raises" THEN "callback" ELSE @]
    /\ UNCHANGED <<rclone_path, _running_processes, clock, procs, call, cmd, argv, tab, after_queue, received,
                   config_file, app>>

\* line 560: if process_id in self._running_processes
run_process_with_output_check(i) ==
    /\ launches[i].op = "transfer"
    /\ launches[i].pc = "L560"
    /\ launches' = [launches EXCEPT ![i].pc =
          IF launches[i].process_id \in DOMAIN _running_processes
          THEN "L561" ELSE "done"]
    /\ UNCHANGED <<rclone_path, _running_processes, clock, procs, call, cmd, argv, tab, after_queue, received,
                   config_file, app>>

\* line 561: del self._running_processes[process_id], a KeyError when the key
\* has gone since line 560; the KeyError is raised inside the try block
run_process_with_output_del(i) ==
    /\ launches[i].op = "transfer"
    /\ launches[i].pc = "L561"
    /\ IF launches[i].process_id \in DOMAIN _running_processes
       THEN /\ _running_processes' = dict_del(_running_processes, launches[i].process_id)
            /\ launches' = [launches EXCEPT ![i].pc = "done"]
       ELSE /\ launches' = [launches EXCEPT ![i].pc = "L565", ![i].exc = "KeyError"]
            /\ UNCHANGED _running_processes
    /\ UNCHANGED <<rclone_path, clock, procs, call, cmd, argv, tab, after_queue, received,
                   config_file, app>>

\* lines 562-565: except Exception as e: the error marker to the sink; an
\* exception of the sink here leaves the function
run_process_with_output_except(i) ==
    /\ launches[i].op = "transfer"
    /\ launches[i].pc = "L565"
    /\ \E outcome \in SinkOutcomes(launches[i]) :
         launches' = [launches EXCEPT
             ![i].delivered = callback_call(launches[i], ErrorMarker(launches[i].exc)),
             ![i].pc = IF outcome = "raises" THEN "raised" ELSE "L568",
             ![i].exc = IF outcome = "raises" THEN "callback" ELSE @]
    /\ UNCHANGED <<rclone_path, _running_processes, clock, procs, call, cmd, argv, tab, after_queue, received,
                   config_file, app>>

\* line 568: if process_id in self._running_processes
run_process_with_output_xcheck(i) ==
    /\ launches[i].op = "transfer"
    /\ launches[i].pc = "L568"
    /\ launches' = [launches EXCEPT ![i].pc =
          IF launches[i].process_id \in DOMAIN _running_processes
          THEN "L569" ELSE "done"]
    /\ UNCHANGED <<rclone_path, _running_processes, clock, procs, call, cmd, argv, tab, after_queue, received,
                   config_file, app>>

\* line 569: del self._running_processes[process_id], outside any try block
run_process_with_output_xdel(i) ==
    /\ launches[i].op = "transfer"
    /\ launches[i].pc = "L569"
    /\ IF launches[i].process_id \in DOMAIN _running_processes
       THEN /\ _running_processes' = dict_del(_running_processes, launches[i].process_id)
            /\ launches' = [launches EXCEPT ![i].pc = "done"]
       ELSE /\ launches' = [launches EXCEPT ![i].pc = "raised", ![i].exc = "KeyError"]
            /\ UNCHANGED _running_processes
    /\ UNCHANGED <<rclone_path, clock, procs, call, cmd, argv, tab, after_queue, received,
                   config_file, app>>

(***************************************************************************)
(* The worker of mount(): _run_long_process(args, process_id).             *)
(***************************************************************************)
\* lines 501-508: return when no path is set; else spawn and register
run_long_process_start(i) ==
    /\ launches[i].op = "mount"
    /\ launches[i].pc = "start"
    /\ \E accepted \in BOOLEAN :
         IF rclone_path = ""
         THEN /\ launches' = [launches EXCEPT ![i].pc = "done"]
              /\ UNCHANGED <<procs, _running_processes>>
         ELSE IF accepted
         THEN /\ procs' = Append(procs, Popen(FALSE))
              /\ _running_processes' =
                    dict_set(_running_processes, launches[i].process_id, Len(procs) + 1)
              /\ launches' = [launches EXCEPT ![i].pc = "L511",
                                              ![i].process = Len(procs) + 1]
         ELSE /\ launches' = [launches EXCEPT ![i].pc = "L518", ![i].exc = "OSError"]
              /\ UNCHANGED <<procs, _running_processes>>
    /\ UNCHANGED <<rclone_path, clock, call, cmd, argv, tab, after_queue, received, config_file,
                   app>>

\* lines 511-514: process.wait() returns, then the membership test
run_long_process_wait(i) ==
    /\ launches[i].op = "mount"
    /\ launches[i].pc = "L511"
    /\ ~procs[launches[i].process].alive
    /\ launches' = [launches EXCEPT ![i].pc =
          IF launches[i].process_id \in DOMAIN _running_processes
          THEN "L515" ELSE "done"]
    /\ UNCHANGED <<rclone_path, _running_processes, clock, procs, call, cmd, argv, tab, after_queue, received,
                   config_file, app>>

\* line 515: del self._running_processes[process_id], inside the try block
run_long_process_del(i) ==
    /\ launches[i].op = "mount"
    /\ launches[i].pc = "L515"
    /\ IF launches[i].process_id \in DOMAIN _running_processes
       THEN /\ _running_processes' = dict_del(_running_processes, launches[i].process_id)
            /\ launches' = [launches EXCEPT ![i].pc = "done"]
       ELSE /\ launches' = [launches EXCEPT ![i].pc = "L518", ![i].exc = "KeyError"]
            /\ UNCHANGED _running_processes
    /\ UNCHANGED <<rclone_path, clock, procs, call, cmd, argv, tab, after_queue, received,
                   config_file, app>>

\* line 518: except Exception: if process_id in self._running_processes
run_long_process_xcheck(i) ==
    /\ launches[i].op = "mount"
    /\ launches[i].pc = "L518"
    /\ launches' = [launches EXCEPT ![i].pc =
          IF launches[i].process_id \in DOMAIN _running_processes
          THEN "L519" ELSE "done"]
    /\ UNCHANGED <<rclone_path, _running_processes, clock, procs, call, cmd, argv, tab, after_queue, received,
                   config_file, app>>

\* line 519: del self._running_processes[process_id], outside any try block
run_long_process_xdel(i) ==
    /\ launches[i].op = "mount"
    /\ launches[i].pc = "L519"
    /\ IF launches[i].process_id \in DOMAIN _running_processes
       THEN /\ _running_processes' = dict_del(_running_processes, launches[i].process_id)
            /\ launches' = [launches EXCEPT ![i].pc = "done"]
       ELSE /\ launches' = [launches EXCEPT ![i].pc = "raised", ![i].exc = "KeyError"]
            /\ UNCHANGED _running_processes
    /\ UNCHANGED <<rclone_path, clock, procs, call, cmd, argv, tab, after_queue, received,
                   config_file, app>>

(***************************************************************************)
(* cancel_transfer(process_id) and unmount(mount_point, process_id), run   *)
(* by the thread of the user interface: one call at a time. The record     *)
(* `call` holds the call's arguments, its position, its local variable     *)
(* process and, once it has returned, its result.                          *)
(***************************************************************************)
\* a path as the sequence of its characters
MountPoints == { <<"X", ":">>, <<"X", ":", "\\">>, <<"/", "m", "n", "t">> }

\* str.rstrip(chars)
RECURSIVE rstrip(_, _)
rstrip(s, chars) ==
    IF s # <<>> /\ s[Len(s)] \in chars
    THEN rstrip(SubSeq(s, 1, Len(s) - 1), chars)
    ELSE s

\* platform.system()
Platforms == {"Windows", "Linux"}

\* what the platform's unmount command does: exits 0, exits non-zero, or
\* cannot be run (subprocess.run raises)
OsOutcomes == {"rc0", "rc1", "raise"}

Result(success, error) == [success |-> success, error |-> error]

NoResult == Result(FALSE, "pending")

\* lines 205-241 of unmount(): the fallback through the operating system
unmount_fallback(sys, mount_point, os) ==
    IF sys = "Windows" /\ Len(rstrip(mount_point, {"\\", ":"})) # 1
    THEN Result(FALSE, "No se pudo desmontar el punto de montaje")
    ELSE CASE os = "rc0" -> Result(TRUE, "")
           [] os = "rc1" -> Result(FALSE, "stderr")
           [] OTHER -> Result(FALSE, "Error al desmontar")

\* a cancel_transfer() that reports success for an identifier it does not know
cancel_transfer_unknown_succeeds == Result(TRUE, "")

\* lines 323-326 of cancel_transfer(): the identifier is not registered
cancel_transfer_not_found == Result(FALSE, "No se encontro el proceso")

\* the identifiers a caller can pass: those the launches generated, one that
\* no launch generated, and None
KnownIds == {launches[i].process_id : i \in DOMAIN launches}
CallIds == KnownIds \cup {UnknownId}

CallOver == call.pc \in {"idle", "returned", "raised"} /\ call.n < MaxCalls

Call(op, id, pc, found, os, result) ==
    [n |-> call.n + 1, op |-> op, process_id |-> id, pc |-> pc, found |-> found,
     process |-> 0, os |-> os, result |-> result]

NoCall ==
    [n |-> 0, op |-> "none", process_id |-> NoneId, pc |-> "idle", found |-> FALSE,
     process |-> 0, os |-> "none", result |-> NoResult]

\* line 308: if process_id in self._running_processes; lines 323-326 otherwise
cancel_transfer(id) ==
    /\ CallOver
    /\ call' = IF id \in DOMAIN _running_processes
               THEN Call("cancel_transfer", id, "lookup", TRUE, "none", NoResult)
               ELSE Call("cancel_transfer", id, "returned", FALSE, "none",
                         cancel_transfer_not_found)
    /\ UNCHANGED <<rclone_path, _running_processes, clock, procs, launches, cmd, argv, tab, after_queue, received,
                   config_file, app>>

\* line 190: if process_id and process_id in self._running_processes;
\* lines 205-241 otherwise
unmount(mount_point, id) ==
    /\ CallOver
    /\ \E system \in Platforms, os \in OsOutcomes :
         call' = IF id # NoneId /\ id \in DOMAIN _running_processes
                 THEN Call("unmount", id, "lookup", TRUE, "none", NoResult)
                 ELSE Call("unmount", id, "returned", FALSE, os,
                           unmount_fallback(system, mount_point, os))
    /\ UNCHANGED <<rclone_path, _running_processes, clock, procs, launches, cmd, argv, tab, after_queue, received,
                   config_file, app>>

\* lines 191 and 309: process = self._running_processes[process_id], before
\* the try block: a KeyError when the key has gone since the membership test
terminate_lookup ==
    /\ call.pc = "lookup"
    /\ call' = IF call.process_id \in DOMAIN _running_processes
               THEN [call EXCEPT !.pc = "terminate",
                                 !.process = _running_processes[call.process_id]]
               ELSE [call EXCEPT !.pc = "raised", !.result = Result(FALSE, "KeyError")]
    /\ UNCHANGED <<rclone_path, _running_processes, clock, procs, launches, cmd, argv, tab, after_queue, received,
                   config_file, app>>

\* lines 193 and 311: process.terminate()
terminate_signal ==
    /\ call.pc = "terminate"
    /\ procs' = terminate(procs, call.process)
    /\ call' = [call EXCEPT !.pc = "del"]
    /\ UNCHANGED <<rclone_path, _running_processes, clock, launches, cmd, argv, tab, after_queue, received,
                   config_file, app>>

\* lines 194-203 and 312-321: del self._running_processes[process_id] and the
\* success result; a KeyError is caught and returned as an error result
terminate_del ==
    /\ call.pc = "del"
    /\ IF call.process_id \in DOMAIN _running_processes
       THEN /\ _running_processes' = dict_del(_running_processes, call.process_id)
            /\ call' = [call EXCEPT !.pc = "returned", !.result = Result(TRUE, "")]
       ELSE /\ call' = [call EXCEPT !.pc = "returned",
                           !.result = Result(FALSE, "Error al terminar proceso")]
            /\ UNCHANGED _running_processes
    /\ UNCHANGED <<rclone_path, clock, procs, launches, cmd, argv, tab, after_queue, received,
                   config_file, app>>

(***************************************************************************)
(* Bounded invocations: _run_command(args, timeout) and its callers.       *)
(* subprocess.run() either cannot start the child, or times out, or        *)
(* returns the child's exit status with what it wrote to stdout and stderr.*)
(***************************************************************************)
\* timeout=None
NoTimeout == 0
\* get_version(): timeout=5
VersionTimeout == 5
\* list_remotes(), get_remote_details(), delete_remote(): timeout=10
ConfigTimeout == 10

Texts == {"", "text"}

\* the outcomes of subprocess.run(cmd, capture_output=True, text=True, timeout=timeout)
RunOutcome(kind, returncode, stdout, stderr) ==
    [kind |-> kind, returncode |-> returncode, stdout |-> stdout, stderr |-> stderr]

RunOutcomes(timeout) ==
    {RunOutcome("OSError", 0, "", "")}
    \cup (IF timeout # NoTimeout THEN {RunOutcome("TimeoutExpired", 0, "", "")} ELSE {})
    \cup {RunOutcome("exit", rc, out, err) : rc \in ExitCodes, out \in Texts, err \in Texts}

CommandResult(success, error, stdout, stderr, ran) ==
    [success |-> success, error |-> error, stdout |-> stdout, stderr |-> stderr,
     ran |-> ran]

\* _run_command() with the error set to the captured stderr whatever the exit status
run_command_stderr_always(path, timeout, os) ==
    IF path = ""
    THEN CommandResult(FALSE, "Ruta de rclone no configurada", "", "", FALSE)
    ELSE CASE os.kind = "exit" ->
                CommandResult(os.returncode = 0, os.stderr, os.stdout, os.stderr, TRUE)
           [] os.kind = "TimeoutExpired" ->
                CommandResult(FALSE, "Tiempo de espera agotado", "", "", TRUE)
           [] OTHER ->
                CommandResult(FALSE, "OSError", "", "", TRUE)

\* _run_command(): the result dictionary; ran tells whether subprocess.run()
\* was called. The timeout message is modelled without the number it quotes.
_run_command(path, timeout, os) ==
    IF path = ""
    THEN CommandResult(FALSE, "Ruta de rclone no configurada", "", "", FALSE)
    ELSE CASE os.kind = "exit" ->
                CommandResult(os.returncode = 0,
                              IF os.returncode # 0 THEN os.stderr ELSE "",
                              os.stdout, os.stderr, TRUE)
           [] os.kind = "TimeoutExpired" ->
                CommandResult(FALSE, "Tiempo de espera agotado", "", "", TRUE)
           [] OTHER ->
                CommandResult(FALSE, "OSError", "", "", TRUE)

\* the callers of _run_command and the timeout each passes
BoundedOps == {"get_version", "list_remotes", "get_remote_details",
               "delete_remote", "check_files"}

timeout_of(op) ==
    CASE op = "get_version" -> VersionTimeout
      [] op = "check_files" -> NoTimeout
      [] OTHER -> ConfigTimeout

\* what the caller makes of the result
caller_value(op, r) ==
    CASE op = "get_version" ->
            IF r.success
            THEN (IF r.stdout = "" THEN "Error: list index out of range" ELSE "first line")
            ELSE "Error: error"
      [] op = "list_remotes" ->
            IF r.success /\ r.stdout # "" THEN "remotes" ELSE "[]"
      [] op = "get_remote_details" ->
            IF r.success
            THEN (IF r.stdout # "" THEN "stdout" ELSE "No se encontraron detalles")
            ELSE "Error: error"
      [] op = "delete_remote" -> IF r.success THEN "success" ELSE "failure"
      [] OTHER -> IF r.success THEN "success" ELSE "failure"

\* the record of one bounded invocation: the caller, the path and the timeout
\* it ran with, the keys of the dictionary when it was called, what
\* subprocess.run() did, the result and the caller's value
Command(op, path, os) ==
    [op |-> op, path |-> path, timeout |-> timeout_of(op), os |-> os,
     keys |-> DOMAIN _running_processes,
     result |-> _run_command(path, timeout_of(op), os),
     value |-> caller_value(op, _run_command(path, timeout_of(op), os))]

\* a bounded invocation that registers its child in the dictionary
bounded_tracked(op) ==
    /\ \E os \in RunOutcomes(timeout_of(op)) : cmd' = Command(op, rclone_path, os)
    /\ _running_processes' = dict_set(_running_processes, <<op, clock>>, 0)
    /\ UNCHANGED <<rclone_path, clock, procs, launches, call, argv, tab, after_queue, received,
                   config_file, app>>

\* one bounded invocation, from its call to its return
bounded(op) ==
    /\ \E os \in RunOutcomes(timeout_of(op)) : cmd' = Command(op, rclone_path, os)
    /\ UNCHANGED <<rclone_path, _running_processes, clock, procs, launches, call, argv, tab, after_queue, received,
                   config_file, app>>

(***************************************************************************)
(* The command lines of mount(), transfer() and check_files(). A Python    *)
(* value is modelled by its type and by the text str() gives for it; the   *)
(* options mapping by the sequence of its (key, value) entries in          *)
(* insertion order, the order options.items() yields them in.              *)
(***************************************************************************)
\* entries in an options mapping
MaxOptions == 2

PyTrue == [type |-> "bool", text |-> "True"]
PyFalse == [type |-> "bool", text |-> "False"]
PyNone == [type |-> "NoneType", text |-> "None"]
PyStr(s) == [type |-> "str", text |-> s]
PyInt(s) == [type |-> "int", text |-> s]

OptionKeys == {"read-only", "drive-chunk-size", "allow-other"}
OptionValues == {PyTrue, PyFalse, PyNone, PyStr("32M"), PyInt("0")}

\* the options mappings: at most MaxOptions entries, no key twice
OptionMaps ==
    {o \in UNION {[1..n -> OptionKeys \X OptionValues] : n \in 0..MaxOptions} :
        \A i, j \in DOMAIN o : i # j => o[i][1] # o[j][1]}

\* mount() in which an option set to False is rendered like any other value
RECURSIVE mount_options_false_rendered(_, _)
mount_options_false_rendered(command, options) ==
    IF options = <<>> THEN command
    ELSE LET key == Head(options)[1]
             value == Head(options)[2] IN
         mount_options_false_rendered(
            IF value = PyTrue THEN Append(command, "--" \o key)
            ELSE IF value # PyNone
                 THEN Append(Append(command, "--" \o key), value.text)
                 ELSE command,
            Tail(options))

\* lines 150-156 of mount(): for key, value in options.items()
RECURSIVE mount_options(_, _)
mount_options(command, options) ==
    IF options = <<>> THEN command
    ELSE LET key == Head(options)[1]
             value == Head(options)[2] IN
         mount_options(
            IF value = PyTrue THEN Append(command, "--" \o key)
            ELSE IF value # PyFalse /\ value # PyNone
                 THEN Append(Append(command, "--" \o key), value.text)
                 ELSE command,
            Tail(options))

\* lines 270-275 of transfer()
RECURSIVE transfer_options(_, _)
transfer_options(command, options) ==
    IF options = <<>> THEN command
    ELSE LET key == Head(options)[1]
             value == Head(options)[2] IN
         transfer_options(
            IF value = PyTrue THEN Append(command, "--" \o key)
            ELSE IF value # PyFalse /\ value # PyNone
                 THEN Append(Append(command, "--" \o key), value.text)
                 ELSE command,
            Tail(options))

\* lines 344-350 of check_files()
RECURSIVE check_files_options(_, _)
check_files_options(command, options) ==
    IF options = <<>> THEN command
    ELSE LET key == Head(options)[1]
             value == Head(options)[2] IN
         check_files_options(
            IF value = PyTrue THEN Append(command, "--" \o key)
            ELSE IF value # PyFalse /\ value # PyNone
                 THEN Append(Append(command, "--" \o key), value.text)
                 ELSE command,
            Tail(options))

\* x in cmd
in_list(x, command) == \E i \in DOMAIN command : command[i] = x

\* lines 147-156: the command of mount()
mount_cmd(remote_path, mount_point, options) ==
    mount_options(<<"mount", remote_path, mount_point>>, options)

\* lines 266-279: the command of transfer(), with --progress added when the
\* options did not give it
transfer_cmd(method, source, destination, options) ==
    LET command == transfer_options(<<method, source, destination>>, options) IN
    IF ~in_list("--progress", command) /\ ~in_list("-P", command)
    THEN Append(command, "--progress") ELSE command

\* lines 341-350: the command of check_files()
check_files_cmd(path, options) ==
    check_files_options(<<"check", path, path>>, options)

\* the record of one command line built: the method, the options given, the
\* number of arguments before the options, and the command
Argv(op, options, base, command) ==
    [op |-> op, options |-> options, base |-> base, cmd |-> command]

NoArgv == Argv("none", <<>>, 0, <<>>)

\* The command depends on nothing but the arguments of the call, so a
\* behaviour builds one command line: every call is the first call of some
\* behaviour.

\* mount("gdrive:", "/mnt", options) builds its command
build_mount(options) ==
    /\ argv = NoArgv
    /\ argv' = Argv("mount", options, 3, mount_cmd("gdrive:", "/mnt", options))
    /\ UNCHANGED <<rclone_path, _running_processes, clock, procs, launches, call, cmd, tab, after_queue, received,
                   config_file, app>>

\* transfer("gdrive:", "/data", method, options) builds its command
build_transfer(method, options) ==
    /\ argv = NoArgv
    /\ method \in TransferMethods
    /\ argv' = Argv(method, options, 3, transfer_cmd(method, "gdrive:", "/data", options))
    /\ UNCHANGED <<rclone_path, _running_processes, clock, procs, launches, call, cmd, tab, after_queue, received,
                   config_file, app>>

\* check_files("gdrive:", options) builds its command
build_check_files(options) ==
    /\ argv = NoArgv
    /\ argv' = Argv("check", options, 3, check_files_cmd("gdrive:", options))
    /\ UNCHANGED <<rclone_path, _running_processes, clock, procs, launches, call, cmd, tab, after_queue, received,
                   config_file, app>>

(***************************************************************************)
(* Text. A Python str is a TLA+ string; the methods of str the interface   *)
(* uses are computed character by character.                               *)
(***************************************************************************)
\* s[i], a string of one character
char(s, i) == SubSeq(s, i, i)

\* s.startswith(prefix)
startswith(s, prefix) ==
    Len(prefix) <= Len(s) /\ SubSeq(s, 1, Len(prefix)) = prefix

\* sub in s
contains(s, sub) ==
    \E i \in 1..(Len(s) - Len(sub) + 1) : SubSeq(s, i, i + Len(sub) - 1) = sub

\* the characters str.strip() removes when it is given no argument
Whitespace == {" ", "\n", "\t", "\r"}

\* s.lstrip(chars), s.rstrip(chars), s.strip(chars), chars a set of characters
RECURSIVE str_lstrip(_, _)
str_lstrip(s, chars) ==
    IF Len(s) > 0 /\ char(s, 1) \in chars
    THEN str_lstrip(SubSeq(s, 2, Len(s)), chars)
    ELSE s

RECURSIVE str_rstrip(_, _)
str_rstrip(s, chars) ==
    IF Len(s) > 0 /\ char(s, Len(s)) \in chars
    THEN str_rstrip(SubSeq(s, 1, Len(s) - 1), chars)
    ELSE s

\* a strip() that trims nothing
strip_nothing(s, chars) == s

strip(s, chars) == str_rstrip(str_lstrip(s, chars), chars)

\* s.split(sep) for a separator of one character: the pieces between the
\* separators, at least one piece
RECURSIVE split_from(_, _, _)
split_from(s, sep, piece) ==
    IF Len(s) = 0 THEN <<piece>>
    ELSE IF char(s, 1) = sep
         THEN <<piece>> \o split_from(SubSeq(s, 2, Len(s)), sep, "")
         ELSE split_from(SubSeq(s, 2, Len(s)), sep, piece \o char(s, 1))

split(s, sep) == split_from(s, sep, "")

\* the value of a decimal digit
Digits == {"0", "1", "2", "3", "4", "5", "6", "7", "8", "9"}

digit_value(c) ==
    CASE c = "0" -> 0 [] c = "1" -> 1 [] c = "2" -> 2 [] c = "3" -> 3 [] c = "4" -> 4
      [] c = "5" -> 5 [] c = "6" -> 6 [] c = "7" -> 7 [] c = "8" -> 8 [] OTHER -> 9

digit_char(d) ==
    CASE d = 0 -> "0" [] d = 1 -> "1" [] d = 2 -> "2" [] d = 3 -> "3" [] d = 4 -> "4"
      [] d = 5 -> "5" [] d = 6 -> "6" [] d = 7 -> "7" [] d = 8 -> "8" [] OTHER -> "9"

all_digits(s) == Len(s) > 0 /\ \A i \in 1..Len(s) : char(s, i) \in Digits

\* the number a string of digits denotes
RECURSIVE digits_value(_, _)
digits_value(s, acc) ==
    IF Len(s) = 0 THEN acc
    ELSE digits_value(SubSeq(s, 2, Len(s)), 10 * acc + digit_value(char(s, 1)))

\* the digits of a natural number
RECURSIVE nat_str(_)
nat_str(n) ==
    IF n < 10 THEN digit_char(n) ELSE nat_str(n \div 10) \o digit_char(n % 10)

\* str(n) for an integer n
int_str(n) == IF n < 0 THEN "-" \o nat_str(0 - n) ELSE nat_str(n)

\* int(s): surrounding whitespace and one sign are accepted; ok is FALSE where
\* int() raises ValueError
int_parse(s) ==
    LET t == strip(s, Whitespace)
        signed == Len(t) > 0 /\ char(t, 1) \in {"-", "+"}
        body == IF signed THEN SubSeq(t, 2, Len(t)) ELSE t IN
    IF all_digits(body)
    THEN [ok |-> TRUE,
          value |-> IF signed /\ char(t, 1) = "-"
                    THEN 0 - digits_value(body, 0) ELSE digits_value(body, 0)]
    ELSE [ok |-> FALSE, value |-> 0]

\* float(s) for decimal notation (digits, with an optional sign and an optional
\* fraction): the value as the pair of a numerator and a power of ten; ok is
\* FALSE where float() raises ValueError
float_parse(s) ==
    LET t == strip(s, Whitespace)
        signed == Len(t) > 0 /\ char(t, 1) \in {"-", "+"}
        body == IF signed THEN SubSeq(t, 2, Len(t)) ELSE t
        pieces == split(body, ".")
        whole == pieces[1]
        frac == IF Len(pieces) = 2 THEN pieces[2] ELSE ""
        sign == IF signed /\ char(t, 1) = "-" THEN 0 - 1 ELSE 1 IN
    IF /\ Len(pieces) <= 2
       /\ Len(whole) + Len(frac) > 0
       /\ \A i \in 1..Len(whole) : char(whole, i) \in Digits
       /\ \A i \in 1..Len(frac) : char(frac, i) \in Digits
    THEN [ok |-> TRUE, num |-> sign * digits_value(whole \o frac, 0), den |-> 10 ^ Len(frac)]
    ELSE [ok |-> FALSE, num |-> 0, den |-> 1]

(***************************************************************************)
(* The transfer tab of the interface (gui/transfer_tab.py): the progress   *)
(* window, the sink process_output that transfer() is given as callback,   *)
(* and the functions the sink schedules on the thread of the interface     *)
(* with root.after(0, ...). The texts shown to the user are written        *)
(* without their accents and symbols.                                      *)
(***************************************************************************)
\* a number as float() reads it: numerator and power of ten
Number(num, den) == [num |-> num, den |-> den]

\* lines 644-788: the widgets of a progress window just created; task is the
\* position of the thread transfer_task that _start_transfer() starts, cancels
\* the number of calls of cancel_transfer() whose result _cancel_transfer()
\* has handled, cancel_closed whether _cancel_transfer() closed the window
NewProgressWindow(dry_run) ==
    [created |-> TRUE, window |-> TRUE, dry_run |-> dry_run,
     progress_transferred |-> "0 B / 0 B",
     progress_speed |-> "0 B/s",
     progress_eta |-> "-",
     progress_files |-> "0 / 0",
     bar_mode |-> "indeterminate", bar_running |-> TRUE, bar_value |-> Number(0, 1),
     transfer_status |-> "Iniciando transferencia...",
     output_text |-> <<>>,
     cancel_btn |-> "Cancelar",
     transfer_process_id |-> NoneId,
     task |-> "L842", cancels |-> 0, cancel_closed |-> FALSE]

\* no progress window has been opened
NoProgressWindow ==
    [NewProgressWindow(FALSE) EXCEPT !.created = FALSE, !.window = FALSE,
                                     !.bar_running = FALSE, !.task = "none"]

\* a function scheduled with root.after(0, ...) and its argument
Scheduled(fn, text, code) == [fn |-> fn, text |-> text, code |-> code]

\* the last piece of line.split(":"), stripped of "__ \n"
marker_payload(line) ==
    LET pieces == split(line, ":") IN
    strip(pieces[Len(pieces)], {"_", " ", "\n"})

\* a sink that forwards the line trimmed of its surrounding whitespace
process_output_trims(window, line) ==
    IF ~window THEN <<>>
    ELSE IF startswith(line, "__RETURN_CODE:")
    THEN IF int_parse(marker_payload(line)).ok
         THEN <<Scheduled("_update_progress_finished", "",
                          int_parse(marker_payload(line)).value)>>
         ELSE <<>>
    ELSE IF startswith(line, "__ERROR:")
    THEN <<Scheduled("_update_progress_error", marker_payload(line), 0)>>
    ELSE IF strip(line, Whitespace) = "" THEN <<>>
    ELSE <<Scheduled("_append_output", strip(line, Whitespace), 0)>>
         \o (IF contains(line, "Transferred:")
             THEN <<Scheduled("_update_progress_metrics", line, 0)>> ELSE <<>>)

\* lines 803-836, process_output(line): what one call of the sink schedules,
\* in order; window is progress_window.winfo_exists()
process_output(window, line) ==
    IF ~window THEN <<>>
    ELSE IF startswith(line, "__RETURN_CODE:")
    THEN IF int_parse(marker_payload(line)).ok
         THEN <<Scheduled("_update_progress_finished", "",
                          int_parse(marker_payload(line)).value)>>
         ELSE <<>>
    ELSE IF startswith(line, "__ERROR:")
    THEN <<Scheduled("_update_progress_error", marker_payload(line), 0)>>
    ELSE IF strip(line, Whitespace) = "" THEN <<>>
    ELSE <<Scheduled("_append_output", line, 0)>>
         \o (IF contains(line, "Transferred:")
             THEN <<Scheduled("_update_progress_metrics", line, 0)>> ELSE <<>>)

\* lines 870-882, _append_output(text)
_append_output(t, text) ==
    IF ~t.window THEN t
    ELSE [t EXCEPT !.output_text = Append(@, text)]

\* the first part (in order) that contains sub, 0 when none does
first_with(parts, sub) ==
    IF \E i \in DOMAIN parts : contains(parts[i], sub)
    THEN CHOOSE i \in DOMAIN parts :
            /\ contains(parts[i], sub)
            /\ \A j \in 1..(i - 1) : ~contains(parts[j], sub)
    ELSE 0

\* part.split(":")[1].strip()
label_value(part) == strip(split(part, ":")[2], Whitespace)

\* a parser that clears the fields a line does not carry
\* a status text built as if transferred and speed started as empty texts
status_text_unset(parts, has_transferred, has_speed) ==
    [raised |-> FALSE,
     text |-> (IF has_transferred THEN label_value(parts[1]) ELSE "") \o " a "
              \o (IF has_speed THEN label_value(parts[2]) ELSE "")]

\* line 922, f"{transferred} a {speed}": the two are local variables assigned
\* only where their label was found, and reading an unassigned one raises
\* UnboundLocalError
status_text(parts, has_transferred, has_speed) ==
    IF has_transferred /\ has_speed
    THEN [raised |-> FALSE,
          text |-> label_value(parts[1]) \o " a " \o label_value(parts[2])]
    ELSE [raised |-> TRUE, text |-> ""]

_update_progress_metrics_clears(t, line) ==
    IF ~t.window THEN t
    ELSE LET parts == split(strip(line, Whitespace), ",")
             f == first_with(parts, "Files:") IN
         [t EXCEPT
            !.progress_transferred =
                IF contains(parts[1], "Transferred:") THEN label_value(parts[1]) ELSE @,
            !.progress_speed =
                IF Len(parts) > 1 /\ contains(parts[2], "Speed:")
                THEN label_value(parts[2]) ELSE "0 B/s",
            !.progress_eta =
                IF Len(parts) > 2 /\ contains(parts[3], "ETA:")
                THEN label_value(parts[3]) ELSE "-",
            !.progress_files = IF f # 0 THEN label_value(parts[f]) ELSE "0 / 0"]

\* lines 884-940, _update_progress_metrics(line). transferred and speed are
\* local variables assigned only where their label is found in its place, so
\* line 922 raises UnboundLocalError when either is missing; the handler of
\* line 938 ends the function with the fields set so far.
_update_progress_metrics(t, line) ==
    IF ~t.window THEN t
    ELSE LET parts == split(strip(line, Whitespace), ",")
             has_transferred == contains(parts[1], "Transferred:")
             has_speed == Len(parts) > 1 /\ contains(parts[2], "Speed:")
             has_eta == Len(parts) > 2 /\ contains(parts[3], "ETA:")
             f == first_with(parts, "Files:")
             p == first_with(parts, "%")
             t1 == IF has_transferred
                   THEN [t EXCEPT !.progress_transferred = label_value(parts[1])] ELSE t
             t2 == IF has_speed
                   THEN [t1 EXCEPT !.progress_speed = label_value(parts[2])] ELSE t1
             t3 == IF has_eta
                   THEN [t2 EXCEPT !.progress_eta = label_value(parts[3])] ELSE t2
             t4 == IF f # 0
                   THEN [t3 EXCEPT !.progress_files = label_value(parts[f])] ELSE t3
             status == status_text(parts, has_transferred, has_speed)
             t5 == [t4 EXCEPT !.transfer_status = status.text]
             percent == float_parse(str_rstrip(strip(parts[p], Whitespace), {"%"}))
             t6 == IF p # 0 /\ percent.ok
                   THEN [t5 EXCEPT
                           !.bar_running = IF t5.bar_mode = "indeterminate" THEN FALSE ELSE @,
                           !.bar_mode = "determinate",
                           !.bar_value = Number(percent.num, percent.den)]
                   ELSE t5 IN
         IF status.raised THEN t4 ELSE t6

\* lines 942-981, _update_progress_finished(return_code)
_update_progress_finished(t, return_code) ==
    IF ~t.window THEN t
    ELSE LET stopped == [t EXCEPT !.bar_running = FALSE, !.bar_mode = "determinate",
                                  !.cancel_btn = "Cerrar",
                                  !.transfer_process_id = NoneId] IN
         IF return_code = 0
         THEN IF t.dry_run
              THEN _append_output(
                      [stopped EXCEPT !.bar_value = Number(100, 1),
                          !.transfer_status = "Simulacion completada (sin cambios)"],
                      "\nSimulacion completada correctamente. No se realizaron cambios.\n")
              ELSE _append_output(
                      [stopped EXCEPT !.bar_value = Number(100, 1),
                          !.transfer_status = "Transferencia completada con exito!"],
                      "\nTransferencia completada con exito!\n")
         ELSE _append_output(
                 [stopped EXCEPT !.bar_value = Number(0, 1),
                     !.transfer_status =
                        "Error en transferencia (codigo " \o int_str(return_code) \o ")"],
                 "\nLa transferencia fallo con codigo de error: "
                     \o int_str(return_code) \o "\n")

\* lines 983-1010, _update_progress_error(error_msg)
_update_progress_error(t, error_msg) ==
    IF ~t.window THEN t
    ELSE _append_output(
            [t EXCEPT !.bar_running = FALSE, !.bar_mode = "determinate",
                      !.bar_value = Number(0, 1),
                      !.transfer_status = "Error: " \o error_msg,
                      !.cancel_btn = "Cerrar",
                      !.transfer_process_id = NoneId],
            "\nError durante la transferencia: " \o error_msg \o "\n")

\* the function a scheduled entry names, applied
run_scheduled(t, e) ==
    CASE e.fn = "_append_output" -> _append_output(t, e.text)
      [] e.fn = "_update_progress_metrics" -> _update_progress_metrics(t, e.text)
      [] e.fn = "_update_progress_finished" -> _update_progress_finished(t, e.code)
      [] OTHER -> _update_progress_error(t, e.text)

\* the lines a child writes (readline() keeps the newline; the last line of a
\* child may lack it) and the markers the runner builds
Lines ==
    {"Transferred: 1.5 GiB / 3 GiB, 50%, Speed: 10 MiB/s, ETA: 2m30s",
     "Transferred: 2 GiB / 3 GiB, Speed: 12 MiB/s, ETA: 1m0s, Files: 3 / 4, 66%\n",
     "Transferred: 2.5 GiB / 3 GiB\n",
     "Speed: 10 MiB/s\n",
     "Checking for changes...\n",
     "Transferred:, x%\n",
     "Transferred: 1 GiB / 3 GiB, Files: 1 / 4, 33%\n",
     "\n"}

\* f"__RETURN_CODE:{process.returncode}__" (line 557)
return_code_text(code) == "__RETURN_CODE:" \o int_str(code) \o "__"

\* f"__ERROR:{str(e)}__" (line 565)
error_text(e) == "__ERROR:" \o e \o "__"

\* str(e) of the exceptions of the worker: a refused spawn, a KeyError of the del
ErrorMessages == {"[Errno 2] No such file or directory: 'rclone'", "'transfer_0'"}

SinkInputs ==
    Lines \cup {return_code_text(c) : c \in ExitCodes \cup {SIGTERM_CODE}}
          \cup {error_text(e) : e \in ErrorMessages}

\* one call of the sink, as recorded: the line, whether the window existed,
\* and what the call scheduled
Received(line, window) ==
    [line |-> line, window |-> window, scheduled |-> process_output(window, line)]

\* lines 633-788, _create_progress_window(): a new, modal progress window
_create_progress_window(dry_run) ==
    /\ ~tab.created
    /\ tab' = NewProgressWindow(dry_run)
    /\ UNCHANGED <<rclone_path, _running_processes, clock, procs, launches, call, cmd,
                   argv, after_queue, received, config_file, app>>

\* a worker calls the sink with a line: process_output(line)
sink_call(line) ==
    /\ tab.created
    /\ Len(received) < MaxLines
    /\ received' = Append(received, Received(line, tab.window))
    /\ after_queue' = after_queue \o process_output(tab.window, line)
    /\ UNCHANGED <<rclone_path, _running_processes, clock, procs, launches, call, cmd,
                   argv, tab, config_file, app>>

\* the thread of the interface is in the main loop, not inside _cancel_transfer()
MainThreadIdle ==
    /\ call.pc \in {"idle", "returned", "raised"}
    /\ tab.cancels = call.n

\* the thread of the interface runs the oldest scheduled function
mainloop ==
    /\ after_queue # <<>>
    /\ MainThreadIdle
    /\ tab' = run_scheduled(tab, Head(after_queue))
    /\ after_queue' = Tail(after_queue)
    /\ UNCHANGED <<rclone_path, _running_processes, clock, procs, launches, call, cmd,
                   argv, received, config_file, app>>

\* the user closes the progress window: progress_window.destroy()
close_window ==
    /\ tab.window
    /\ MainThreadIdle
    /\ tab' = [tab EXCEPT !.window = FALSE]
    /\ UNCHANGED <<rclone_path, _running_processes, clock, procs, launches, call, cmd,
                   argv, after_queue, received, config_file, app>>

(***************************************************************************)
(* The transfer tab with the runner: the thread transfer_task calls        *)
(* transfer() with process_output as callback, the worker of the runner    *)
(* calls process_output from its own thread, and the Cancel button calls   *)
(* cancel_transfer() from the thread of the interface.                     *)
(***************************************************************************)
\* lines 842-849 of transfer_task: the command is shown in the raw output
transfer_task_show ==
    /\ tab.task = "L842"
    /\ tab' = [tab EXCEPT !.task = "L852"]
    /\ after_queue' = Append(after_queue, Scheduled("_append_output", "Ejecutando: rclone\n\n", 0))
    /\ UNCHANGED <<rclone_path, _running_processes, clock, procs, launches, call, cmd,
                   argv, received, config_file, app>>

\* lines 852-858 of transfer_task: the call of transfer() is to be made
TransferTaskCalls == tab.task = "L852" /\ launches = <<>>

\* line 861 of transfer_task: self.transfer_process_id = result.get("process_id")
transfer_task_store ==
    /\ tab.task = "L852"
    /\ launches # <<>>
    /\ tab' = [tab EXCEPT !.task = "done",
                          !.transfer_process_id = launches[1].process_id]
    /\ UNCHANGED <<rclone_path, _running_processes, clock, procs, launches, call, cmd,
                   argv, after_queue, received, config_file, app>>

\* the worker is not inside a call of the sink: process_output has handled
\* every call the worker made
SinkIdle(i) == Len(received) = Len(launches[i].delivered)

\* the last call of the sink by the worker of launch i raised: the worker is
\* on its way to the handler of line 562, or left it through line 565
SinkRaised(i) ==
    LET l == launches[i] IN
    /\ l.delivered # <<>>
    /\ IF l.delivered[Len(l.delivered)][1] = "__ERROR"
       THEN l.pc = "raised"
       ELSE l.pc = "L565" /\ l.exc = "callback"

\* str(e) for the exception the worker caught
exception_text(e, process_id) ==
    CASE e = "KeyError" -> "'" \o process_id[1] \o "_" \o int_str(process_id[2]) \o "'"
      [] e = "OSError" -> "[Errno 2] No such file or directory: 'rclone'"
      [] OTHER -> "sink"

\* the lines the child of the transfer writes: one with every field at its
\* place, two the parser cannot read in full, and one without any label
ChildLines ==
    {"Transferred: 2 GiB / 3 GiB, Speed: 12 MiB/s, ETA: 1m0s, Files: 3 / 4, 66%\n",
     "Transferred: 2.5 GiB / 3 GiB\n",
     "Transferred:, x%\n",
     "Checking for changes...\n"}

\* the argument of the k-th call of the sink by the worker of launch i: the
\* text of a marker, or a line of the child
delivered_texts(i, k) ==
    LET item == launches[i].delivered[k] IN
    CASE item[1] = "__RETURN_CODE" -> {return_code_text(item[2])}
      [] item[1] = "__ERROR" -> {error_text(exception_text(item[2], launches[i].process_id))}
      [] OTHER -> ChildLines

\* process_output(line) raises, as if the line were parsed inside the sink
\* outside any try block
process_output_raises_unparsed(line) ==
    contains(line, "Transferred:") /\ ~contains(line, "Speed:")

\* lines 803-836: process_output(line) raises an exception to its caller.  The
\* conversion of the return code is inside try/except (lines 810-816), the
\* parsing is scheduled for the thread of the interface, and nothing else in
\* the body raises for a string.
process_output_raises(line) == FALSE

\* the outcome of the last call of the sink by the worker of launch i is the
\* outcome of process_output for some text that call can carry
SinkOutcomeComputed(i) ==
    \E line \in delivered_texts(i, Len(launches[i].delivered)) :
       process_output_raises(line) = SinkRaised(i)

\* process_output(line), called by the worker of launch i
process_output_called(i) ==
    /\ Len(received) < Len(launches[i].delivered)
    /\ \E line \in delivered_texts(i, Len(received) + 1) :
         /\ process_output_raises(line) = SinkRaised(i)
         /\ received' = Append(received, Received(line, tab.window))
         /\ after_queue' = after_queue \o process_output(tab.window, line)
    /\ UNCHANGED <<rclone_path, _running_processes, clock, procs, launches, call, cmd,
                   argv, tab, config_file, app>>

\* line 1019 of _cancel_transfer(): the Cancel button is pressed while a
\* process identifier is stored; cancel_transfer() is to be called with it
CancelPressed ==
    /\ tab.window
    /\ tab.cancel_btn = "Cancelar"
    /\ MainThreadIdle
    /\ tab.transfer_process_id # NoneId

\* lines 1037-1039 of _cancel_transfer(): no identifier is stored, the window
\* is closed
_cancel_transfer_close ==
    /\ tab.window
    /\ tab.cancel_btn = "Cancelar"
    /\ MainThreadIdle
    /\ tab.transfer_process_id = NoneId
    /\ tab' = [tab EXCEPT !.window = FALSE, !.cancel_closed = TRUE]
    /\ UNCHANGED <<rclone_path, _running_processes, clock, procs, launches, call, cmd,
                   argv, after_queue, received, config_file, app>>

\* lines 1023-1036 of _cancel_transfer(): cancel_transfer() has returned; an
\* exception it raised leaves the handler at line 1021
_cancel_transfer_return ==
    /\ call.pc \in {"returned", "raised"}
    /\ tab.cancels < call.n
    /\ tab' =
         IF call.pc = "raised" THEN [tab EXCEPT !.cancels = call.n]
         ELSE [(IF call.result.success
                THEN _append_output(
                        [tab EXCEPT !.transfer_status = "Transferencia cancelada"],
                        "\nTransferencia cancelada por el usuario.\n")
                ELSE _append_output(
                        [tab EXCEPT !.transfer_status = "Error al cancelar transferencia"],
                        "\nError al cancelar: " \o call.result.error \o "\n"))
               EXCEPT !.cancels = call.n,
                      !.transfer_process_id = NoneId,
                      !.cancel_btn = "Cerrar"]
    /\ UNCHANGED <<rclone_path, _running_processes, clock, procs, launches, call, cmd,
                   argv, after_queue, received, config_file, app>>

(***************************************************************************)
(* The configuration: ConfigManager and the values json.load() returns.    *)
(* A value is a record of its Python type and its content: the text of a   *)
(* str or of an int, the items of a list, the mapping of a dict.           *)
(***************************************************************************)
JStr(s) == [type |-> "str", text |-> s, items |-> <<>>, map |-> <<>>]
JInt(s) == [type |-> "int", text |-> s, items |-> <<>>, map |-> <<>>]
JNone == [type |-> "NoneType", text |-> "None", items |-> <<>>, map |-> <<>>]
JDict(d) == [type |-> "dict", text |-> "", items |-> <<>>, map |-> d]
JList(items) == [type |-> "list", text |-> "", items |-> items, map |-> <<>>]

\* lines 33-39 of __init__: self.default_config
default_config ==
    [k \in {"rclone_path", "last_mount", "last_transfer", "cache_mode", "theme"} |->
        CASE k = "rclone_path" -> JStr("")
          [] k = "cache_mode" -> JStr("writes")
          [] k = "theme" -> JStr("flatly")
          [] OTHER -> JDict(<<>>)]

\* os.path.exists(path) for the paths of the model
ExistingPaths == {"rclone", "/usr/bin/rclone"}

\* os.path.exists(v): a str is looked up; None is a TypeError, which
\* os.path.exists does not catch
path_exists(v) ==
    IF v.type = "str" THEN [raised |-> FALSE, value |-> v.text \in ExistingPaths]
    ELSE [raised |-> TRUE, value |-> FALSE]

\* one element of the sequence given to dict.update(): it must be a
\* sequence of length 2, its first item the key
is_pair(e) ==
    \/ e.type = "list" /\ Len(e.items) = 2 /\ e.items[1].type = "str"
    \/ e.type = "str" /\ Len(e.text) = 2

pair_key(e) == IF e.type = "list" THEN e.items[1].text ELSE char(e.text, 1)

pair_value(e) == IF e.type = "list" THEN e.items[2] ELSE JStr(char(e.text, 2))

\* d.update(items) for a sequence: the elements are merged one by one and the
\* first one that is no pair raises, the earlier ones staying merged
RECURSIVE update_from_seq(_, _)
update_from_seq(d, items) ==
    IF items = <<>> THEN [raised |-> FALSE, d |-> d]
    ELSE IF ~is_pair(Head(items)) THEN [raised |-> TRUE, d |-> d]
    ELSE update_from_seq(dict_set(d, pair_key(Head(items)), pair_value(Head(items))),
                         Tail(items))

\* the characters of a str, as dict.update() iterates over it
RECURSIVE chars_of(_)
chars_of(s) == IF s = "" THEN <<>> ELSE <<JStr(char(s, 1))>> \o chars_of(SubSeq(s, 2, Len(s)))

\* line 56, config.update(saved_config): a dict is merged key by key, any
\* other iterable is taken as a sequence of pairs, anything else is a TypeError
dict_update(d, saved) ==
    CASE saved.type = "dict" ->
           [raised |-> FALSE,
            d |-> [k \in DOMAIN d \cup DOMAIN saved.map |->
                      IF k \in DOMAIN saved.map THEN saved.map[k] ELSE d[k]]]
      [] saved.type = "list" -> update_from_seq(d, saved.items)
      [] saved.type = "str" -> update_from_seq(d, chars_of(saved.text))
      [] OTHER -> [raised |-> TRUE, d |-> d]

\* the configuration file: absent ("missing"), not readable ("unreadable"),
\* no JSON ("invalid"), or JSON of some value ("json"); here absent
NoConfigFile == [kind |-> "missing", content |-> JNone]

\* lines 41-66, load_config(): the configuration returned, and whether the
\* handler of line 62 caught an exception.  config is the copy of the
\* defaults that update() of line 56 changes in place, so it keeps what was
\* merged before the exception.
load_config(file) ==
    IF file.kind = "missing" THEN [config |-> default_config, failed |-> FALSE]
    ELSE IF file.kind # "json" THEN [config |-> default_config, failed |-> TRUE]
    ELSE LET saved == file.content
             u == dict_update(default_config, saved)
             \* line 58, "rclone_path" in saved_config: a key of a dict, an
             \* element of a list, a substring of a str
             has_rclone_path ==
                CASE saved.type = "dict" -> "rclone_path" \in DOMAIN saved.map
                  [] saved.type = "list" ->
                       \E n \in 1..Len(saved.items) : saved.items[n] = JStr("rclone_path")
                  [] OTHER -> contains(saved.text, "rclone_path")
             \* line 59, os.path.exists(saved_config["rclone_path"])
             e == path_exists(saved.map["rclone_path"]) IN
         IF u.raised THEN [config |-> u.d, failed |-> TRUE]
         ELSE IF ~has_rclone_path THEN [config |-> u.d, failed |-> FALSE]
         ELSE IF e.raised THEN [config |-> u.d, failed |-> TRUE]
         ELSE IF e.value THEN [config |-> u.d, failed |-> FALSE]
         ELSE [config |-> dict_set(u.d, "rclone_path", JStr("")), failed |-> FALSE]

\* lines 68-86, save_config(config): the file after a successful json.dump
save_config(config) == [kind |-> "json", content |-> JDict(config)]

\* the contents of the configuration file: what save_config() writes, and
\* JSON of other shapes and types
ConfigFiles ==
    {NoConfigFile,
     [kind |-> "unreadable", content |-> JNone],
     [kind |-> "invalid", content |-> JNone]}
    \cup
    {[kind |-> "json", content |-> c] : c \in
    {JDict(<<>>),
     JDict([k \in {"theme"} |-> JStr("darkly")]),
     JDict([k \in {"rclone_path", "theme"} |->
              IF k = "theme" THEN JStr("darkly") ELSE JStr("rclone")]),
     JDict([k \in {"rclone_path", "theme"} |->
              IF k = "theme" THEN JStr("darkly") ELSE JStr("/gone/rclone")]),
     JDict([k \in {"rclone_path", "theme"} |->
              IF k = "theme" THEN JStr("darkly") ELSE JNone]),
     JList(<<JList(<<JStr("theme"), JStr("darkly")>>), JInt("5")>>),
     JList(<<JList(<<JStr("rclone_path"), JStr("/gone/rclone")>>)>>),
     JInt("5"),
     JNone,
     JStr("x")}}

(***************************************************************************)
(* The application: RcloneManagerApp.__init__ loads the configuration and  *)
(* creates the tabs, each tab with a RcloneRunner of its own.              *)
(***************************************************************************)
Tabs == {"config", "mount", "transfer", "tools"}

\* the operations a tab runs on its runner
TabOperations ==
    [t \in Tabs |->
        CASE t = "config" -> {"get_version", "list_remotes"}
          [] t = "mount" -> {"mount"}
          [] t = "transfer" -> {"transfer"}
          [] OTHER -> {"check_files", "clean_cache", "run_ncdu"}]

\* the paths the user can type or pick in the configuration tab
EntryPaths == {"", "rclone", "/usr/bin/rclone", "/gone/rclone"}

\* what find_rclone_path() returns: a path it found, or the empty string
FoundPaths == {"", "rclone"}

\* the number of paths the user saves in one run of the application
MaxSaves == 2

\* the application before __init__
NoApp ==
    [pc |-> "new", config |-> default_config, load_failed |-> FALSE,
     rclone_path |-> "", rclone_path_var |-> "",
     runners |-> [t \in Tabs |-> ""], saves |-> 0,
     invoked |-> [tab |-> "none", op |-> "none", path |-> ""]]

\* the configuration file as the application finds it at its start
write_config_file(file) ==
    /\ app.pc = "new"
    /\ config_file # file
    /\ config_file' = file
    /\ UNCHANGED <<rclone_path, _running_processes, clock, procs, launches, call, cmd,
                   argv, tab, after_queue, received, app>>

\* lines 25-26 of __init__: self.config = self.config_manager.load_config()
app_load_config ==
    /\ app.pc = "new"
    /\ app' = [app EXCEPT !.pc = "L35",
                          !.config = load_config(config_file).config,
                          !.load_failed = load_config(config_file).failed]
    /\ UNCHANGED <<rclone_path, _running_processes, clock, procs, launches, call, cmd,
                   argv, tab, after_queue, received, config_file>>

\* lines 35-41 of __init__: the path of the configuration or else the one
\* find_rclone_path() returns, saved when it is not empty; then the tabs,
\* each with RcloneRunner(app.rclone_path)
app_create_widgets ==
    /\ app.pc = "L35"
    /\ \E found \in FoundPaths, saved \in BOOLEAN :
         LET v == app.config["rclone_path"]
             \* the truth value of config.get("rclone_path")
             truthy == CASE v.type = "str" -> v.text # ""
                         [] v.type = "NoneType" -> FALSE
                         [] v.type = "int" -> v.text # "0"
                         [] v.type = "list" -> v.items # <<>>
                         [] OTHER -> DOMAIN v.map # {}
             path == IF truthy THEN v.text ELSE found
             config == IF path # "" THEN dict_set(app.config, "rclone_path", JStr(path))
                       ELSE app.config IN
         /\ app' = [app EXCEPT !.pc = "running",
                               !.rclone_path = path,
                               !.config = config,
                               !.rclone_path_var = path,
                               !.runners = [t \in Tabs |-> path]]
         /\ config_file' = IF path # "" /\ saved THEN save_config(config) ELSE config_file
    /\ UNCHANGED <<rclone_path, _running_processes, clock, procs, launches, call, cmd,
                   argv, tab, after_queue, received>>

\* the user types a path in the entry of the configuration tab, or picks one
\* with browse_rclone()
browse_rclone(path) ==
    /\ app.pc = "running"
    /\ app.rclone_path_var # path
    /\ app' = [app EXCEPT !.rclone_path_var = path]
    /\ UNCHANGED <<rclone_path, _running_processes, clock, procs, launches, call, cmd,
                   argv, tab, after_queue, received, config_file>>

\* lines 198-221 of config_tab.py, save_rclone_path(): a path that does not
\* exist is refused; else the application, its configuration and the runner
\* of the configuration tab take the path
save_rclone_path ==
    /\ app.pc = "running"
    /\ app.saves < MaxSaves
    /\ app.rclone_path_var \in ExistingPaths
    /\ \E saved \in BOOLEAN :
         LET path == app.rclone_path_var
             config == dict_set(app.config, "rclone_path", JStr(path)) IN
         /\ app' = [app EXCEPT !.rclone_path = path,
                               !.config = config,
                               !.runners = [@ EXCEPT !["config"] = path],
                               !.saves = @ + 1]
         /\ config_file' = IF saved THEN save_config(config) ELSE config_file
    /\ UNCHANGED <<rclone_path, _running_processes, clock, procs, launches, call, cmd,
                   argv, tab, after_queue, received>>

\* a tab runs an operation of its runner: the command line starts with
\* self.rclone_path of that runner
tab_operation(t, op) ==
    /\ app.pc = "running"
    /\ app' = [app EXCEPT !.invoked = [tab |-> t, op |-> op, path |-> app.runners[t]]]
    /\ app'.invoked # app.invoked
    /\ UNCHANGED <<rclone_path, _running_processes, clock, procs, launches, call, cmd,
                   argv, tab, after_queue, received, config_file>>

(***************************************************************************)
(* The specifications.                                                     *)
(***************************************************************************)
NoCommand ==
    [op |-> "none", path |-> "", timeout |-> NoTimeout, keys |-> {},
     os |-> RunOutcome("none", 0, "", ""),
     result |-> CommandResult(FALSE, "", "", "", FALSE), value |-> ""]

\* RcloneRunner(rclone_path): the path given, an empty dictionary
Init ==
    /\ rclone_path \in Paths
    /\ _running_processes = EmptyDict
    /\ clock = 0
    /\ procs = <<>>
    /\ launches = <<>>
    /\ call = NoCall
    /\ cmd = NoCommand
    /\ argv = NoArgv
    /\ tab = NoProgressWindow
    /\ after_queue = <<>>
    /\ received = <<>>
    /\ config_file = NoConfigFile
    /\ app = NoApp

\* The identifier of a launch carries its kind, so launches of different kinds
\* use different keys of the dictionary and different processes: the runner is
\* checked one kind at a time, each with the calls that terminate its processes.

\* transfer(), its workers, the children and cancel_transfer()
NextTransfer ==
    \/ \E method \in Methods, callback \in BOOLEAN : transfer(method, callback)
    \/ \E i \in DOMAIN launches : run_process_with_output_start(i)
    \/ \E i \in DOMAIN launches : run_process_with_output_line(i)
    \/ \E i \in DOMAIN launches : run_process_with_output_wait(i)
    \/ \E i \in DOMAIN launches : run_process_with_output_check(i)
    \/ \E i \in DOMAIN launches : run_process_with_output_del(i)
    \/ \E i \in DOMAIN launches : run_process_with_output_except(i)
    \/ \E i \in DOMAIN launches : run_process_with_output_xcheck(i)
    \/ \E i \in DOMAIN launches : run_process_with_output_xdel(i)
    \/ \E p \in DOMAIN procs : ChildWrite(p)
    \/ \E p \in DOMAIN procs : ChildExit(p)
    \/ \E id \in CallIds : cancel_transfer(id)
    \/ terminate_lookup
    \/ terminate_signal
    \/ terminate_del
    \/ Tick

TransferSpec == Init /\ [][NextTransfer]_vars

\* mount(), its workers, the children, unmount() and cancel_transfer()
NextMount ==
    \/ mount
    \/ \E i \in DOMAIN launches : mount_return(i)
    \/ \E i \in DOMAIN launches : run_long_process_start(i)
    \/ \E i \in DOMAIN launches : run_long_process_wait(i)
    \/ \E i \in DOMAIN launches : run_long_process_del(i)
    \/ \E i \in DOMAIN launches : run_long_process_xcheck(i)
    \/ \E i \in DOMAIN launches : run_long_process_xdel(i)
    \/ \E p \in DOMAIN procs : ChildExit(p)
    \/ \E mount_point \in MountPoints, id \in CallIds \cup {NoneId} :
          unmount(mount_point, id)
    \/ \E id \in CallIds : cancel_transfer(id)
    \/ terminate_lookup
    \/ terminate_signal
    \/ terminate_del
    \/ Tick

MountSpec == Init /\ [][NextMount]_vars

\* run_ncdu(), whose processes no worker waits for, the children, unmount()
\* and cancel_transfer()
NextNcdu ==
    \/ run_ncdu
    \/ \E p \in DOMAIN procs : ChildExit(p)
    \/ \E mount_point \in MountPoints, id \in CallIds \cup {NoneId} :
          unmount(mount_point, id)
    \/ \E id \in CallIds : cancel_transfer(id)
    \/ terminate_lookup
    \/ terminate_signal
    \/ terminate_del
    \/ Tick

NcduSpec == Init /\ [][NextNcdu]_vars

\* the bounded invocations, beside the processes of run_ncdu()
NextCmd ==
    \/ \E op \in BoundedOps : bounded(op)
    \/ run_ncdu
    \/ \E p \in DOMAIN procs : ChildExit(p)
    \/ Tick

CmdSpec == Init /\ [][NextCmd]_vars

\* the command lines of mount(), transfer() and check_files()
NextOptions ==
    \/ \E options \in OptionMaps : build_mount(options)
    \/ \E method \in Methods, options \in OptionMaps : build_transfer(method, options)
    \/ \E options \in OptionMaps : build_check_files(options)

OptionsSpec == Init /\ [][NextOptions]_vars

\* the sink of the transfer tab, called with any line and any marker
NextSink ==
    \/ \E dry_run \in BOOLEAN : _create_progress_window(dry_run)
    \/ \E line \in SinkInputs : sink_call(line)
    \/ mainloop
    \/ close_window

SinkSpec == Init /\ [][NextSink]_vars

\* the transfer tab running one transfer: its threads, the worker of the
\* runner with process_output as its sink, the child, and the Cancel button.
\* The outcome of each call of the sink is the one process_output computes.  It
\* raises nothing, so the handler of the worker never finds the identifier
\* registered and line 569 is not a step of this specification.  The transfer
\* is a real one: the simulation flag changes only the texts shown at the end,
\* which SinkSpec covers.
NextGui ==
    \/ _create_progress_window(FALSE)
    \/ transfer_task_show
    \/ \E method \in TransferMethods : TransferTaskCalls /\ transfer(method, TRUE)
    \/ transfer_task_store
    \/ \E i \in DOMAIN launches : SinkIdle(i) /\ run_process_with_output_start(i)
    \/ \E i \in DOMAIN launches :
          SinkIdle(i) /\ run_process_with_output_line(i) /\ SinkOutcomeComputed(i)'
    \/ \E i \in DOMAIN launches :
          SinkIdle(i) /\ run_process_with_output_wait(i) /\ SinkOutcomeComputed(i)'
    \/ \E i \in DOMAIN launches : SinkIdle(i) /\ run_process_with_output_check(i)
    \/ \E i \in DOMAIN launches : SinkIdle(i) /\ run_process_with_output_del(i)
    \/ \E i \in DOMAIN launches :
          SinkIdle(i) /\ run_process_with_output_except(i) /\ SinkOutcomeComputed(i)'
    \/ \E i \in DOMAIN launches : SinkIdle(i) /\ run_process_with_output_xcheck(i)
    \/ \E i \in DOMAIN launches : process_output_called(i)
    \/ \E p \in DOMAIN procs : ChildWrite(p)
    \/ \E p \in DOMAIN procs : ChildExit(p)
    \/ _cancel_transfer_close
    \/ mainloop
    \/ close_window
    \/ CancelPressed /\ cancel_transfer(tab.transfer_process_id)
    \/ terminate_lookup
    \/ terminate_signal
    \/ terminate_del
    \/ _cancel_transfer_return

GuiSpec == Init /\ [][NextGui]_vars

\* the application from its start: the configuration file it finds, the path
\* the user saves in the configuration tab, and the operations of the tabs
NextApp ==
    \/ \E file \in ConfigFiles : write_config_file(file)
    \/ app_load_config
    \/ app_create_widgets
    \/ \E path \in EntryPaths : browse_rclone(path)
    \/ save_rclone_path
    \/ \E t \in Tabs : \E op \in TabOperations[t] : tab_operation(t, op)

AppSpec == Init /\ [][NextApp]_vars

\* the whole runner: the parts above, with set_rclone_path()
Next ==
    \/ NextTransfer
    \/ NextMount
    \/ NextNcdu
    \/ NextCmd
    \/ NextOptions
    \/ NextSink
    \/ NextGui
    \/ NextApp
    \/ \E path \in Paths : set_rclone_path(path)

Spec == Init /\ [][Next]_vars

(***************************************************************************)
(* The claims.                                                             *)
(***************************************************************************)
\* the terminal markers among the calls a worker has made to its sink
Markers(l) == {k \in DOMAIN l.delivered : IsMarker(l.delivered[k])}

\* the output lines among the calls a worker has made to its sink, in order
RECURSIVE LinesOf(_)
LinesOf(d) ==
    IF d = <<>> THEN <<>>
    ELSE IF IsMarker(Head(d)) THEN LinesOf(Tail(d))
    ELSE <<Head(d)[2]>> \o LinesOf(Tail(d))

\* the worker of launch i has left its function, by return or by an exception
Finished(i) == launches[i].pc \in {"done", "raised"}

\* C1: a streaming invocation with a sink never delivers more than one
\* terminal marker, and has delivered exactly one when its worker has finished,
\* whether or not a path is set and whether or not the spawn is accepted.
C1_ExactlyOneTerminalMarker ==
    \A i \in DOMAIN launches :
        (launches[i].op = "transfer" /\ launches[i].callback) =>
            /\ Cardinality(Markers(launches[i])) <= 1
            /\ Finished(i) => Cardinality(Markers(launches[i])) = 1

\* C2: the sink receives the child's lines one call per line in the order the
\* child wrote them, and a terminal marker is the last call made to the sink.
C2_OrderedLinesMarkerLast ==
    \A i \in DOMAIN launches :
        launches[i].op = "transfer" =>
            /\ \A k \in DOMAIN LinesOf(launches[i].delivered) :
                  LinesOf(launches[i].delivered)[k] = k
            /\ \A k \in Markers(launches[i]) : k = Len(launches[i].delivered)

\* C3: every identifier a launch returns differs from every identifier
\* returned earlier, and a registration never replaces the entry of another
\* process that is still alive.
C3_IdentifiersNeverReused ==
    [][ /\ \A i, j \in Returned' :
              i # j => launches'[i].process_id # launches'[j].process_id
        /\ \A id \in DOMAIN _running_processes \cap DOMAIN _running_processes' :
              _running_processes'[id] # _running_processes[id]
                  => ~procs[_running_processes[id]].alive ]_vars

\* C4: at the step in which mount(), transfer() or run_ncdu() returns a
\* result carrying a process_id, that identifier is in the dictionary.
C4_RegisteredAtReturn ==
    [][ \A i \in Returned' \ Returned :
            launches'[i].process_id \in DOMAIN _running_processes' ]_vars

\* C5: the identifier of a process that has exited stays registered only
\* while a worker that waits for that process still has to remove it: when no
\* such worker is left, no identifier of an exited process is registered.
C5_ExitedIsRemoved ==
    \A id \in DOMAIN _running_processes :
        ~procs[_running_processes[id]].alive =>
            \E i \in DOMAIN launches :
                /\ launches[i].process = _running_processes[id]
                /\ launches[i].pc \notin {"none", "done", "raised"}

\* C6: a call of cancel_transfer() or unmount() that found its identifier
\* registered ends by returning success, having sent the termination request
\* to the process, with the identifier out of the dictionary.
C6_TerminateRegistered ==
    [][ (call.pc \notin {"returned", "raised"} /\ call'.pc \in {"returned", "raised"}
            /\ call'.found)
        => /\ call'.pc = "returned"
           /\ call'.result.success
           /\ call'.process # 0
           /\ call'.process_id \notin DOMAIN _running_processes' ]_vars

\* C7: a call of cancel_transfer() or unmount() with an identifier that is not
\* registered returns without raising and leaves the dictionary as it was;
\* cancel_transfer() reports failure, unmount() reports success only when the
\* platform's unmount command exited with status 0.
C7_UnknownIdIsFailure ==
    [][ (call'.n # call.n /\ ~call'.found)
        => /\ call'.pc = "returned"
           /\ _running_processes' = _running_processes
           /\ call'.op = "cancel_transfer" => ~call'.result.success
           /\ call'.op = "unmount" => (call'.result.success => call'.os = "rc0")
           /\ call'.os \in {"rc1", "raise"} => ~call'.result.success ]_vars

\* C7 witness: unmount() of an unregistered identifier has returned the
\* success of the fallback while another process is registered
C7_Witness ==
    /\ call.op = "unmount"
    /\ call.pc = "returned"
    /\ ~call.found
    /\ call.result.success
    /\ DOMAIN _running_processes # {}

\* C8: no removal meets a missing key: no worker handles or dies of a KeyError,
\* no call of cancel_transfer() or unmount() raises, and none reports an error
\* for an identifier it found registered.
C8_RemovalIsSafe ==
    /\ \A i \in DOMAIN launches : launches[i].exc # "KeyError"
    /\ call.pc # "raised"
    /\ (call.pc = "returned" /\ call.found) => call.result.success

\* C9: the result of _run_command: not configured and nothing run for an empty
\* path; failure with a message and empty output when the child cannot be
\* started or times out; failure with the captured stderr as the error on a
\* non-zero exit; success with an empty error on exit status 0.
C9_RunCommandResult ==
    cmd.op # "none" =>
        /\ cmd.path = "" =>
              /\ ~cmd.result.success
              /\ cmd.result.error = "Ruta de rclone no configurada"
              /\ ~cmd.result.ran
        /\ (cmd.path # "" /\ cmd.os.kind \in {"OSError", "TimeoutExpired"}) =>
              /\ ~cmd.result.success
              /\ cmd.result.error # ""
              /\ cmd.result.stdout = "" /\ cmd.result.stderr = ""
        /\ (cmd.path # "" /\ cmd.os.kind = "exit" /\ cmd.os.returncode # 0) =>
              /\ ~cmd.result.success
              /\ cmd.result.error = cmd.os.stderr
        /\ (cmd.path # "" /\ cmd.os.kind = "exit" /\ cmd.os.returncode = 0) =>
              /\ cmd.result.success
              /\ cmd.result.error = ""

\* C9 witness: a command has exited with a non-zero status and text on stderr
C9_Witness ==
    /\ cmd.op # "none"
    /\ cmd.path # ""
    /\ cmd.os.kind = "exit" /\ cmd.os.returncode # 0 /\ cmd.os.stderr # ""
    /\ cmd.result.error = cmd.os.stderr

\* C10: a bounded invocation, whatever its outcome, leaves the dictionary of
\* running processes as it was.
C10_BoundedLeavesProcesses ==
    [][ cmd' # cmd => _running_processes' = _running_processes ]_vars

\* C10 witness: a bounded invocation called while a process was registered has
\* timed out, and the process is still registered
C10_Witness ==
    /\ cmd.op # "none"
    /\ cmd.os.kind = "TimeoutExpired"
    /\ cmd.keys # {}
    /\ cmd.keys \subseteq DOMAIN _running_processes

\* C11: mount() returns a result carrying a process_id and the status
\* "iniciado" only for a launch whose spawn was accepted: a mount launch that
\* has returned has a process, whether the path is empty or the spawn refused.
C11_MountReportsSpawnFailure ==
    \A i \in DOMAIN launches :
        (launches[i].op = "mount" /\ launches[i].caller = "returned")
            => launches[i].process # 0

\* C12: a streaming invocation with a sink whose child was not started (no
\* path set, or the spawn refused) has, when its worker has finished, made
\* exactly one call to the sink, an __ERROR marker, and its identifier is not
\* in the dictionary.
C12_SpawnFailureOneErrorMarker ==
    \A i \in DOMAIN launches :
        (launches[i].op = "transfer" /\ launches[i].callback
            /\ launches[i].process = 0 /\ Finished(i))
        => /\ Len(launches[i].delivered) = 1
           /\ launches[i].delivered[1][1] = "__ERROR"
           /\ launches[i].process_id \notin DOMAIN _running_processes

\* C13: no exception leaves a worker thread: no worker of mount() or
\* transfer() ends by an exception raised out of _run_long_process or
\* _run_process_with_output, whatever the sink does.
C13_NoExceptionEscapesWorker ==
    \A i \in DOMAIN launches : launches[i].pc # "raised"

\* the arguments the rule of C14 gives for an options mapping: `--key` for the
\* value true, nothing for false and None, `--key` and the value's text otherwise
RECURSIVE RenderedByRule(_)
RenderedByRule(options) ==
    IF options = <<>> THEN <<>>
    ELSE LET key == Head(options)[1]
             value == Head(options)[2] IN
         (CASE value = PyTrue -> <<"--" \o key>>
            [] value \in {PyFalse, PyNone} -> <<>>
            [] OTHER -> <<"--" \o key, value.text>>)
         \o RenderedByRule(Tail(options))

\* C14: in mount(), transfer() and check_files() alike, the arguments that
\* follow the base command are those of the options mapping, entry by entry in
\* mapping order: `--key` for true, nothing for false or None, `--key value`
\* otherwise (transfer() then adds `--progress`); {"read-only": true} gives
\* `--read-only`, {"drive-chunk-size": "32M"} gives `--drive-chunk-size 32M`
\* and {"allow-other": false} gives nothing.
C14_OptionsRendered ==
    argv.op # "none" =>
        LET rendered == SubSeq(argv.cmd, argv.base + 1,
                               Len(argv.cmd) - (IF argv.op \in TransferMethods THEN 1 ELSE 0)) IN
        /\ rendered = RenderedByRule(argv.options)
        /\ argv.options = <<<<"read-only", PyTrue>>>> => rendered = <<"--read-only">>
        /\ argv.options = <<<<"drive-chunk-size", PyStr("32M")>>>>
              => rendered = <<"--drive-chunk-size", "32M">>
        /\ argv.options = <<<<"allow-other", PyFalse>>>> => rendered = <<>>

\* C14 witness: mount() has built its command from a mapping whose first
\* option is false and whose second carries a value
C14_Witness ==
    /\ argv.op = "mount"
    /\ argv.options = <<<<"allow-other", PyFalse>>, <<"drive-chunk-size", PyStr("32M")>>>>
    /\ argv.cmd = <<"mount", "gdrive:", "/mnt", "--drive-chunk-size", "32M">>

\* the thread of the interface runs the scheduled function fn in this step
Runs(fn) ==
    /\ after_queue # <<>>
    /\ Head(after_queue).fn = fn
    /\ after_queue' = Tail(after_queue)
    /\ received' = received

\* the text after the first `:` of the first segment of a line that carries a label
ValueByLabel(line, label) ==
    LET parts == split(strip(line, Whitespace), ",") IN
    label_value(parts[first_with(parts, label)])

HasLabel(line, label) ==
    first_with(split(strip(line, Whitespace), ","), label) # 0

\* C15: when the parser runs on a line in an open window, each of the fields
\* transferred, speed, eta and files whose label is carried by some segment
\* of the line is set to the text after the first `:` of that segment, and the
\* claim's example line yields transferred "1.5 GiB / 3 GiB", speed
\* "10 MiB/s", eta "2m30s" and percent 50.
C15_FieldsByLabel ==
    [][ (Runs("_update_progress_metrics") /\ tab.window) =>
          LET line == Head(after_queue).text IN
          /\ HasLabel(line, "Transferred:")
                => tab'.progress_transferred = ValueByLabel(line, "Transferred:")
          /\ HasLabel(line, "Speed:")
                => tab'.progress_speed = ValueByLabel(line, "Speed:")
          /\ HasLabel(line, "ETA:")
                => tab'.progress_eta = ValueByLabel(line, "ETA:")
          /\ HasLabel(line, "Files:")
                => tab'.progress_files = ValueByLabel(line, "Files:")
          /\ line = "Transferred: 1.5 GiB / 3 GiB, 50%, Speed: 10 MiB/s, ETA: 2m30s"
                => /\ tab'.progress_transferred = "1.5 GiB / 3 GiB"
                   /\ tab'.progress_speed = "10 MiB/s"
                   /\ tab'.progress_eta = "2m30s"
                   /\ tab'.bar_value = Number(50, 1) ]_vars

\* C16: a call of the sink in an open window with a line that is neither a
\* marker nor empty after trimming schedules the progress parser if and only
\* if the line contains one of the labels Transferred:, Speed:, ETA:, Files:.
C16_ProgressLineIffLabel ==
    \A k \in DOMAIN received :
        LET line == received[k].line IN
        (/\ received[k].window
         /\ ~startswith(line, "__RETURN_CODE:")
         /\ ~startswith(line, "__ERROR:")
         /\ strip(line, Whitespace) # "")
        => ((\E label \in {"Transferred:", "Speed:", "ETA:", "Files:"} :
                contains(line, label))
            <=> (\E j \in DOMAIN received[k].scheduled :
                    /\ received[k].scheduled[j].fn = "_update_progress_metrics"
                    /\ received[k].scheduled[j].text = line))

\* C17: when the parser runs on a line that contains Transferred:, each of
\* the fields speed, eta and files whose label the line does not contain
\* keeps the value it had before the line.
C17_OmittedFieldsKept ==
    [][ (Runs("_update_progress_metrics")
            /\ contains(Head(after_queue).text, "Transferred:")) =>
          LET line == Head(after_queue).text IN
          /\ ~contains(line, "Speed:") => tab'.progress_speed = tab.progress_speed
          /\ ~contains(line, "ETA:") => tab'.progress_eta = tab.progress_eta
          /\ ~contains(line, "Files:") => tab'.progress_files = tab.progress_files ]_vars

\* C17 witness: after a line that set every field, the parser has run on a
\* line that carries Transferred: alone; the other fields are those of the
\* earlier line
C17_Witness ==
    /\ Len(received) = 2
    /\ received[2].line = "Transferred: 2.5 GiB / 3 GiB\n"
    /\ after_queue = <<>>
    /\ tab.progress_transferred = "2.5 GiB / 3 GiB"
    /\ tab.progress_speed = "12 MiB/s"
    /\ tab.progress_eta = "1m0s"
    /\ tab.progress_files = "3 / 4"

\* a line that is no marker, is not empty after trimming and carries no label
PlainLine(line) ==
    /\ ~startswith(line, "__RETURN_CODE:")
    /\ ~startswith(line, "__ERROR:")
    /\ strip(line, Whitespace) # ""
    /\ \A label \in {"Transferred:", "Speed:", "ETA:", "Files:"} : ~contains(line, label)

\* how many times the raw output holds exactly this text, and how many times
\* the sink was called with it
TimesInOutput(text) == Cardinality({i \in DOMAIN tab.output_text : tab.output_text[i] = text})
TimesReceived(text) == Cardinality({k \in DOMAIN received : received[k].line = text})

\* the fields of the progress snapshot
Snapshot(t) ==
    <<t.progress_transferred, t.progress_speed, t.progress_eta, t.progress_files,
      t.bar_mode, t.bar_value>>

\* what the functions scheduled for a plain line leave alone
PlainLineKeepsSnapshot ==
    (/\ after_queue # <<>>
     /\ after_queue' = Tail(after_queue)
     /\ received' = received
     /\ Head(after_queue).fn \in {"_append_output", "_update_progress_metrics"}
     /\ PlainLine(Head(after_queue).text))
    => Snapshot(tab') = Snapshot(tab)

\* C18 as stated: once the interface has run everything that was scheduled,
\* every plain line the sink received is in the raw output, unmodified, as
\* many times as it was received, and no function scheduled for a plain line
\* changes a field of the progress snapshot.
C18_PlainLineForwarded ==
    /\ [](after_queue = <<>> =>
            \A k \in DOMAIN received :
                PlainLine(received[k].line) =>
                    TimesInOutput(received[k].line) = TimesReceived(received[k].line))
    /\ [][PlainLineKeepsSnapshot]_vars

\* C18 amended: the same while the progress window exists.
C18_PlainLineForwardedWhileOpen ==
    /\ []((after_queue = <<>> /\ tab.window) =>
            \A k \in DOMAIN received :
                PlainLine(received[k].line) =>
                    TimesInOutput(received[k].line) = TimesReceived(received[k].line))
    /\ [][PlainLineKeepsSnapshot]_vars

\* C18 witness: after a line that set the progress fields, a plain line has
\* been received and forwarded; the fields are those of the earlier line
C18_Witness ==
    /\ tab.window
    /\ after_queue = <<>>
    /\ Len(received) = 2
    /\ received[2].line = "Checking for changes...\n"
    /\ tab.output_text[Len(tab.output_text)] = "Checking for changes...\n"
    /\ TimesInOutput("Checking for changes...\n") = 1
    /\ tab.progress_speed = "12 MiB/s"


\* the k-th call of the sink by the worker of launch i carried the marker of
\* a return code
ReturnCodeCall(i, k) ==
    /\ k <= Len(launches[i].delivered)
    /\ launches[i].delivered[k][1] = "__RETURN_CODE"

\* C19: the sink recognises __RETURN_CODE:<n>__ before any other handling:
\* with the progress window open, exactly one terminal event is scheduled
\* for it and carries the integer n the worker sent, nothing is appended to
\* the raw output or parsed as progress for it, and nothing is scheduled for
\* any call the sink receives afterwards in the same invocation.
C19_ReturnCodeIsLast ==
    \A i \in DOMAIN launches : \A k \in 1..Len(received) :
       ReturnCodeCall(i, k) =>
          /\ received[k].line = return_code_text(launches[i].delivered[k][2])
          /\ received[k].window =>
                received[k].scheduled =
                   <<Scheduled("_update_progress_finished", "",
                               launches[i].delivered[k][2])>>
          /\ \A j \in (k + 1)..Len(received) : received[j].scheduled = <<>>


\* a line with every field at its place, and what the parser reads from it
WellFormedLine == "Transferred: 2 GiB / 3 GiB, Speed: 12 MiB/s, ETA: 1m0s, Files: 3 / 4, 66%\n"

\* lines the parser cannot read in full: a label without a value and a
\* percent that is no number, and a line whose other fields are missing
MalformedLines == {"Transferred:, x%\n", "Transferred: 2.5 GiB / 3 GiB\n"}

\* the worker of launch i, once it has ended after spawning its child, has
\* read the output of the child to the end, has called the sink with every
\* line the child wrote and with a terminal marker
StreamDelivered(i) ==
    LET l == launches[i] IN
    (Finished(i) /\ l.process # 0) =>
       /\ AtEOF(l.process)
       /\ Len(LinesOf(l.delivered)) = procs[l.process].written
       /\ Markers(l) # {}

\* every line the sink received while the window was open is scheduled for
\* the parser when it carries Transferred:, whatever was received before it
LaterLinesParsed ==
    \A k \in 1..Len(received) :
       (/\ received[k].window
        /\ ~startswith(received[k].line, "__RETURN_CODE:")
        /\ ~startswith(received[k].line, "__ERROR:")
        /\ contains(received[k].line, "Transferred:"))
       => \E n \in 1..Len(received[k].scheduled) :
             received[k].scheduled[n] =
                Scheduled("_update_progress_metrics", received[k].line, 0)

\* the parser, run on the well-formed line with the window open, sets every
\* field from it, whatever lines it was run on before
WellFormedLineApplied ==
    (/\ Runs("_update_progress_metrics")
     /\ Head(after_queue).text = WellFormedLine
     /\ tab.window)
    => /\ tab'.progress_transferred = "2 GiB / 3 GiB"
       /\ tab'.progress_speed = "12 MiB/s"
       /\ tab'.progress_eta = "1m0s"
       /\ tab'.progress_files = "3 / 4"
       /\ tab'.bar_value = Number(66, 1)

\* C20: a malformed or unparseable line never aborts the stream: no line makes
\* the sink raise to the worker, so the worker goes on to call the sink with
\* every later line of the child and with the terminal marker, and a later
\* line is scheduled for the parser and parsed as if the malformed line had
\* not been there.
C20_MalformedLineNeverAborts ==
    /\ [](\A i \in DOMAIN launches :
             launches[i].exc # "callback" /\ StreamDelivered(i))
    /\ []LaterLinesParsed
    /\ [][WellFormedLineApplied]_vars

\* C20 witness: the sink received a malformed line, then the well-formed
\* line, then the return code; the worker has ended and the fields show the
\* values of the well-formed line
C20_Witness ==
    /\ Len(received) = 3
    /\ received[1].line \in MalformedLines
    /\ received[1].window
    /\ received[2].line = WellFormedLine
    /\ received[2].window
    /\ startswith(received[3].line, "__RETURN_CODE:")
    /\ \A i \in DOMAIN launches : launches[i].pc = "done"
    /\ after_queue = <<>>
    /\ tab.window
    /\ tab.progress_speed = "12 MiB/s"
    /\ tab.progress_eta = "1m0s"


\* a text made of whitespace only, the empty text included
Blank(text) == \A n \in 1..Len(text) : char(text, n) \in Whitespace

\* C21: an output line that is empty after trimming whitespace is discarded
\* by the sink: nothing is scheduled for it, neither the append to the raw
\* output nor a progress update nor a terminal event, and the raw output
\* never holds such a line.
C21_BlankLineDiscarded ==
    /\ \A k \in 1..Len(received) :
          Blank(received[k].line) => received[k].scheduled = <<>>
    /\ \A n \in 1..Len(tab.output_text) : ~Blank(tab.output_text[n])

\* C21 witness: with the window open the sink received a blank line and then
\* a line that it forwarded to the raw output
C21_Witness ==
    /\ Len(received) = 2
    /\ received[1].line = "\n"
    /\ received[1].window
    /\ received[2].window
    /\ received[2].scheduled # <<>>
    /\ after_queue = <<>>
    /\ tab.output_text # <<>>


\* the first segment of a line that carries a `%`, and the number before it
PercentSegment(line) ==
    LET parts == split(strip(line, Whitespace), ",")
        p == first_with(parts, "%") IN
    IF p = 0 THEN [ok |-> FALSE, num |-> 0, den |-> 1]
    ELSE float_parse(str_rstrip(strip(parts[p], Whitespace), {"%"}))

\* the parser runs on a progress line with a numeric `%` segment: the display
\* is determinate afterwards and shows that number
PercentMakesDeterminate ==
    (/\ Runs("_update_progress_metrics")
     /\ tab.window
     /\ PercentSegment(Head(after_queue).text).ok)
    => /\ tab'.bar_mode = "determinate"
       /\ tab'.bar_value = Number(PercentSegment(Head(after_queue).text).num,
                                  PercentSegment(Head(after_queue).text).den)

\* C22: the progress display starts indeterminate, becomes determinate at the
\* first progress line that carries a `%` segment and takes that segment's
\* number as its value, and never returns to indeterminate for the rest of
\* the invocation.
C22_DeterminateAtFirstPercent ==
    /\ [][(~tab.created /\ tab'.created) => tab'.bar_mode = "indeterminate"]_vars
    /\ [][PercentMakesDeterminate]_vars
    /\ [][(tab.created /\ tab.bar_mode = "determinate")
             => tab'.bar_mode = "determinate"]_vars


\* C23: whenever loading the persisted configuration fails at any step (file
\* unreadable, invalid JSON, saved content of an unexpected shape or type),
\* load_config() returns a configuration equal to the built-in defaults,
\* with no value of the failed file merged in.
C23_FailedLoadGivesDefaults ==
    (app.pc = "L35" /\ app.load_failed) => app.config = default_config

\* the keys of the saved content other than rclone_path, for a content that
\* load_config() merges: the keys of a dict, the first items of a list of pairs
SavedKeys(saved) ==
    IF saved.type = "dict" THEN DOMAIN saved.map \ {"rclone_path"}
    ELSE IF saved.type = "list"
    THEN {pair_key(saved.items[n]) : n \in 1..Len(saved.items)} \ {"rclone_path"}
    ELSE {}

SavedValue(saved, k) ==
    IF saved.type = "dict" THEN saved.map[k]
    ELSE pair_value(saved.items[CHOOSE n \in 1..Len(saved.items) :
                                   pair_key(saved.items[n]) = k])

\* C24: after every successful load_config(), the returned rclone_path is
\* either empty or a path that existed on disk at load time, every other
\* saved key is returned as saved, and every default key is present.
C24_LoadedPathExists ==
    (app.pc = "L35" /\ ~app.load_failed) =>
       /\ app.config["rclone_path"] \in {JStr("")} \cup {JStr(p) : p \in ExistingPaths}
       /\ DOMAIN default_config \subseteq DOMAIN app.config
       /\ config_file.kind = "json" =>
             \A k \in SavedKeys(config_file.content) :
                app.config[k] = SavedValue(config_file.content, k)


\* cancel_transfer() or unmount() has been called on this identifier
CancelCalledOn(id) == call.op # "none" /\ call.process_id = id

\* C25: every live child process spawned by a worker of transfer() or
\* mount() stays registered in the active set until it has exited or until
\* cancel_transfer()/unmount() is called on its identifier: the worker never
\* removes the identifier of a process that is still running, whatever the
\* sink does with a delivered line.  Stated for the launches whose identifier
\* no other launch shares.
C25_LiveProcessStaysRegistered ==
    \A i \in DOMAIN launches :
       (/\ launches[i].op \in {"transfer", "mount"}
        /\ launches[i].process # 0
        /\ procs[launches[i].process].alive
        /\ ~CancelCalledOn(launches[i].process_id)
        /\ \A j \in DOMAIN launches \ {i} :
              launches[j].process_id # launches[i].process_id)
       => /\ launches[i].process_id \in DOMAIN _running_processes
          /\ _running_processes[launches[i].process_id] = launches[i].process


\* a child process of the transfer is running
ChildRunning == \E p \in DOMAIN procs : procs[p].alive

\* the Cancel button just closed the window (lines 1037-1039)
CancelJustCloses == ~tab.cancel_closed /\ tab'.cancel_closed

\* the call of cancel_transfer() made by the Cancel button returns 'not found'
CancelNotFound ==
    /\ call.pc \notin {"returned", "raised"}
    /\ call'.pc = "returned"
    /\ ~call'.result.success

\* the call of cancel_transfer() made by the Cancel button returns success
CancelSucceeds ==
    /\ call.pc \notin {"returned", "raised"}
    /\ call'.pc = "returned"
    /\ call'.result.success

\* C26: pressing Cancel in the progress window while the child process of
\* the transfer is running always sends a termination request to that
\* process, in every interleaving of the thread of the interface with the
\* thread that stores transfer_process_id and with the worker: Cancel never
\* just closes the window or reports 'not found' while the process keeps
\* running, and a cancel reported as successful has signalled the process.
C26_CancelTerminatesRunningChild ==
    /\ [][(CancelJustCloses \/ CancelNotFound) => ~ChildRunning]_vars
    /\ [][CancelSucceeds => \A p \in DOMAIN procs' :
                               procs'[p].alive => procs'[p].signalled]_vars


\* C27: after a user cancel that cancel_transfer() reported as successful,
\* the transfer status stays "Transferencia cancelada": the terminal marker
\* that the worker of the killed process delivers after cancel_transfer()
\* returned does not replace it with a failure or success status.
C27_CancelledStatusStays ==
    [][(/\ tab.transfer_status = "Transferencia cancelada"
        /\ \A p \in DOMAIN procs : procs[p].signalled)
          => tab'.transfer_status = "Transferencia cancelada"]_vars


\* the k-th call of the sink by the worker of launch i carried the error marker
ErrorCall(i, k) ==
    /\ k <= Len(launches[i].delivered)
    /\ launches[i].delivered[k][1] = "__ERROR"

\* C28: the error marker round-trips its message: for every exception
\* message m, messages that contain `:` or `_` included, the text that the
\* sink extracts from the marker __ERROR:m__ built by the runner and passes
\* to the error display equals m.
C28_ErrorMessageRoundTrip ==
    \A i \in DOMAIN launches : \A k \in 1..Len(received) :
       (ErrorCall(i, k) /\ received[k].window) =>
          received[k].scheduled =
             <<Scheduled("_update_progress_error",
                         exception_text(launches[i].delivered[k][2],
                                        launches[i].process_id), 0)>>


\* the line yields a transferred value from its first segment and a speed
\* value from a Speed: label in its second segment
Extracted(line) ==
    LET parts == split(strip(line, Whitespace), ",") IN
    /\ contains(parts[1], "Transferred:")
    /\ Len(parts) > 1
    /\ contains(parts[2], "Speed:")

\* the progress bar of the tab
BarOf(t) == <<t.bar_mode, t.bar_value, t.bar_running>>

\* the parser runs on a line with the window open
PercentOnlyWhenExtracted ==
    (Runs("_update_progress_metrics") /\ tab.window) =>
       LET line == Head(after_queue).text IN
       /\ BarOf(tab') # BarOf(tab) => Extracted(line)
       /\ (Extracted(line) /\ PercentSegment(line).ok) =>
             /\ tab'.bar_mode = "determinate"
             /\ tab'.bar_value = Number(PercentSegment(line).num, PercentSegment(line).den)
       /\ ~Extracted(line) =>
             /\ tab'.transfer_status = tab.transfer_status
             /\ BarOf(tab') = BarOf(tab)
             /\ HasLabel(line, "Files:") =>
                   tab'.progress_files = ValueByLabel(line, "Files:")

\* C29: in _update_progress_metrics the percent of a Transferred: line is
\* applied to the progress bar, and the bar switched to determinate, only
\* when the same line also yielded a transferred value from its first segment
\* and a speed value from a Speed: label in its second segment; when either
\* was not extracted, the status text and the progress bar are left unchanged
\* by that line, while the Files field is still updated.
C29_PercentOnlyWhenExtracted == [][PercentOnlyWhenExtracted]_vars

\* C29 witness: the parser has run on a line with Files: and a percent but
\* no Speed:; the Files field shows its value, the bar is still
\* indeterminate and the status is the initial one
C29_Witness ==
    /\ Len(received) = 1
    /\ received[1].line = "Transferred: 1 GiB / 3 GiB, Files: 1 / 4, 33%\n"
    /\ received[1].window
    /\ after_queue = <<>>
    /\ tab.window
    /\ tab.progress_transferred = "1 GiB / 3 GiB"
    /\ tab.progress_files = "1 / 4"
    /\ tab.bar_mode = "indeterminate"
    /\ tab.transfer_status = "Iniciando transferencia..."


\* C30: after the user saves a new executable path in the configuration tab
\* (save_rclone_path), every later runner operation of every tab invokes the
\* newly saved path: the rclone_path of the RcloneRunner instances held by
\* the mount, transfer and tools tabs equals the path of the application.
C30_SavedPathReachesEveryRunner ==
    /\ [](app.saves > 0 => \A t \in Tabs : app.runners[t] = app.rclone_path)
    /\ [][(app.saves > 0 /\ app'.invoked # app.invoked)
             => app'.invoked.path = app.rclone_path]_vars

==========================================================================
